---- MODULE Spec2Model ----
(***************************************************************************)
(* A model of the dynamic device-resolution layer of the Alexa MCP server: *)
(* the discovery cache (utils/alexa-dynamic.ts), the identifier helpers,   *)
(* the light and do-not-disturb REST handlers and tools, and the bedroom   *)
(* read with its capability-state normaliser, the other normalisers of     *)
(* capability states, volume control and the announcement night gate.      *)
(*                                                                         *)
(* The specifications share the variables:                                 *)
(*   Spec        the discovery cache with interleaved callers and a clock  *)
(*   IdSpec      the identifier helpers applied to every input             *)
(*   LightSpec   one light or do-not-disturb request against every         *)
(*               discovery result                                          *)
(*   BedroomSpec bedroom reads against every state response, with the edge *)
(*               cache                                                     *)
(*   SweepSpec   the discovery sweep of the bedroom read against every     *)
(*               outcome of its queries                                    *)
(*   NormSpec    the four normalisers applied to every state response      *)
(*   VolumeSpec  one volume request against every volume list              *)
(*   RaceSpec    two set-volume requests at once                           *)
(*   AnnounceSpec one announcement at every hour and light state           *)
(***************************************************************************)
EXTENDS Integers, Sequences, FiniteSets, TLC

VARIABLES
    cache,      \* the module-level Map: key -> entry
    now,        \* Date.now(), in milliseconds
    ticks,      \* how often the clock advanced
    pc,         \* per caller: "idle", "fetching" (request in flight), "responded"
    ckey,       \* per caller: the cache key of the query it runs
    resp,       \* per caller: the upstream reply it is about to process
    ncall,      \* queries started so far
    queried,    \* the keys the callers of this run query
    last,       \* the last step taken: for a query step, its key and what it returned or stored
    dev,        \* a device record handed to the identifier helpers
    ent,        \* an entity ID handed to buildEndpointId
    idres,      \* what the identifier helpers returned
    favorites,  \* the favorites list the upstream holds, in provider order
    endpoints,  \* the endpoint graph the upstream holds, in provider order
    lreq,       \* the inbound light or do-not-disturb request being served
    lres,       \* the response returned to its caller
    calls,      \* the control and state requests sent upstream while serving it
    rawData,    \* the body the upstream state endpoint answers a 2xx with
    edgeCache,  \* the edge cache's entry for the bedroom URL
    jsonResponse, \* the last response of the bedroom read
    stateResponse, \* the deviceStates of a state response handed to the normalisers
    normalizer, \* the normaliser applied to it
    normalized, \* the reading that normaliser made of it
    volumes,    \* the device volumes the upstream holds
    vreq,       \* the inbound volume request being served
    vpc,        \* where its handler is: "idle", "reading", "selected", "writing", "done"
    volumesData, \* the answer to its volume-list read
    vcalls,     \* the upstream requests sent for it, in order
    vres,       \* the response returned to its caller
    hourTz,     \* the hour of day in the configured timezone
    power,      \* per light: the power state the upstream reports
    areq,       \* the inbound announcement request being served
    apc,        \* where its handler is: "idle", "gate", "account", "post", "done"
    lightOn,    \* what isAnyLightOn returned to it
    acalls,     \* the upstream requests sent for it, in order
    ares,       \* the response returned to its caller
    lookups,    \* the discovery queries sent upstream for a light or bedroom request, in order
    breq,       \* what the bedroom read ran against
    spc,        \* per racing set-volume request: "idle", "reading", "writing", "done"
    sreq,       \* per racing set-volume request: the device and the volume it asks for
    starget,    \* per racing set-volume request: the list entry it picked when it read
    sres        \* per racing set-volume request: the response returned to its caller

cacheVars == <<cache, now, ticks, pc, ckey, resp, ncall, queried, last>>

idVars == <<dev, ent, idres>>

lightVars == <<favorites, endpoints, lreq, lres, calls>>

bedroomVars == <<rawData, edgeCache, jsonResponse>>

normVars == <<stateResponse, normalizer, normalized>>

volumeVars == <<volumes, vreq, vpc, volumesData, vcalls, vres>>

announceVars == <<hourTz, power, areq, apc, lightOn, acalls, ares>>

traceVars == <<lookups, breq>>

raceVars == <<spc, sreq, starget, sres>>

vars == <<cacheVars, idVars, lightVars, bedroomVars, normVars, volumeVars, announceVars,
          traceVars, raceVars>>

(***************************************************************************)
(* Discovery cache                                                         *)
(***************************************************************************)

CACHE_TTL == 5 * 60 * 1000

\* The five cache keys, one per cached discovery query.
Keys ==
    {"account_info", "alexa_endpoints", "alexa_devices",
     "smart_home_favorites", "customer_smart_home_endpoints"}

Callers == {"c1", "c2"}

MaxTicks == 2
MaxCalls == 3

\* The clock advances by the TTL or by a millisecond less, so that an entry is
\* consulted at the ages TTL-1 and TTL, either side of the boundary; it
\* advances twice, so that time passes both while a request is in flight and
\* while its result sits in the cache.
TickSteps == {CACHE_TTL - 1, CACHE_TTL}

\* JavaScript's null, as returned by getCached on a miss.
Null == [null |-> TRUE]

\* Map.get of a key that was never set.
NoEntry == [set |-> FALSE]

\* A discovery result is identified by the moment the upstream produced it;
\* items is "empty" for the empty list stored on a payload-less reply.
Value(t, items) == [asOf |-> t, items |-> items]

getCached_TtlInclusive(key) ==
    LET cached == cache[key]
    IN  IF cached.set /\ now - cached.timestamp <= CACHE_TTL
        THEN cached.value
        ELSE Null

getCached(key) ==
    LET cached == cache[key]
    IN  IF cached.set /\ now - cached.timestamp < CACHE_TTL
        THEN cached.value
        ELSE Null

setCache_KeepOldTimestamp(key, value) ==
    [cache EXCEPT ![key] =
        [set |-> TRUE, value |-> value,
         timestamp |-> IF cache[key].set THEN cache[key].timestamp ELSE now]]

setCache(key, value) ==
    [cache EXCEPT ![key] = [set |-> TRUE, value |-> value, timestamp |-> now]]

\* What a query does with the upstream reply r = [ok, payload, asOf]:
\* a non-2xx reply throws; the four schema-validated queries throw on a reply
\* without the expected payload (zod parse, or "No account found");
\* getCustomerSmartHomeEndpoints substitutes the empty list.
Processed(key, r) ==
    IF ~r.ok THEN [throw |-> TRUE]
    ELSE IF r.payload = "valid" THEN [throw |-> FALSE, value |-> Value(r.asOf, "data")]
    ELSE IF key = "customer_smart_home_endpoints"
         THEN [throw |-> FALSE, value |-> Value(r.asOf, "empty")]
         ELSE [throw |-> TRUE]

NoResp == [kind |-> "none"]
NoKey == "none"

\* The replies the upstream can give: non-2xx, 2xx with the expected payload,
\* 2xx without it.
Replies ==
    {[kind |-> "reply", ok |-> FALSE, payload |-> "missing"],
     [kind |-> "reply", ok |-> TRUE, payload |-> "valid"],
     [kind |-> "reply", ok |-> TRUE, payload |-> "missing"]}

\* The keys the callers of one run query: every key is queried in some
\* run, and the key whose query accepts a reply without payload shares a
\* run with one whose query does not.
QueriedSets ==
    {{"account_info", "customer_smart_home_endpoints"},
     {"alexa_endpoints", "alexa_devices"},
     {"smart_home_favorites"}}

CacheInit ==
    /\ cache = [k \in Keys |-> NoEntry]
    /\ now = 0
    /\ ticks = 0
    /\ pc = [c \in Callers |-> "idle"]
    /\ ckey = [c \in Callers |-> NoKey]
    /\ resp = [c \in Callers |-> NoResp]
    /\ ncall = 0
    /\ queried \in QueriedSets
    /\ last = [op |-> "init"]

\* The cache as the other specifications leave it: empty and unused.
CacheIdle ==
    /\ cache = [k \in Keys |-> NoEntry]
    /\ now = 0
    /\ ticks = 0
    /\ pc = [c \in Callers |-> "idle"]
    /\ ckey = [c \in Callers |-> NoKey]
    /\ resp = [c \in Callers |-> NoResp]
    /\ ncall = 0
    /\ queried = {}
    /\ last = [op |-> "init"]

\* Time passes.
Tick ==
    /\ ticks < MaxTicks
    /\ \E d \in TickSteps : now' = now + d
    /\ ticks' = ticks + 1
    /\ last' = [op |-> "tick"]
    /\ UNCHANGED <<cache, pc, ckey, resp, ncall, queried, idVars, lightVars, bedroomVars, normVars, volumeVars, announceVars,
                   traceVars, raceVars>>

\* A cached discovery query up to its first suspension point: the cache is
\* consulted; a hit returns the cached value, a miss issues the upstream request.
Query(c, key) ==
    /\ pc[c] = "idle"
    /\ ncall < MaxCalls
    /\ ncall' = ncall + 1
    /\ LET cached == getCached(key)
       IN  IF cached # Null
           THEN /\ last' = [op |-> "hit", key |-> key, value |-> cached]
                /\ UNCHANGED <<pc, ckey>>
           ELSE /\ pc' = [pc EXCEPT ![c] = "fetching"]
                /\ ckey' = [ckey EXCEPT ![c] = key]
                /\ last' = [op |-> "miss", key |-> key]
    /\ UNCHANGED <<cache, now, ticks, resp, queried, idVars, lightVars, bedroomVars, normVars, volumeVars, announceVars,
                   traceVars, raceVars>>

\* The upstream answers the request of caller c with its state as of now.
Respond(c) ==
    /\ pc[c] = "fetching"
    /\ \E r \in Replies :
          resp' = [resp EXCEPT ![c] = [kind |-> "reply", ok |-> r.ok, payload |-> r.payload, asOf |-> now]]
    /\ pc' = [pc EXCEPT ![c] = "responded"]
    /\ last' = [op |-> "reply"]
    /\ UNCHANGED <<cache, now, ticks, ckey, ncall, queried, idVars, lightVars, bedroomVars, normVars, volumeVars, announceVars,
                   traceVars, raceVars>>

\* The query resumes with the reply: check the status, decode, store, return.
Complete(c) ==
    /\ pc[c] = "responded"
    /\ LET p == Processed(ckey[c], resp[c])
       IN  IF p.throw
           THEN /\ last' = [op |-> "throw", key |-> ckey[c]]
                /\ UNCHANGED cache
           ELSE /\ cache' = setCache(ckey[c], p.value)
                /\ last' = [op |-> "store", key |-> ckey[c], value |-> p.value]
    /\ pc' = [pc EXCEPT ![c] = "idle"]
    /\ ckey' = [ckey EXCEPT ![c] = NoKey]
    /\ resp' = [resp EXCEPT ![c] = NoResp]
    /\ UNCHANGED <<now, ticks, ncall, queried, idVars, lightVars, bedroomVars, normVars, volumeVars, announceVars,
                   traceVars, raceVars>>

(***************************************************************************)
(* Identifier helpers                                                      *)
(*                                                                         *)
(* A string is a sequence of tokens. The two tokens "amzn1.alexa." and     *)
(* "endpoint." spell the namespace prefix "amzn1.alexa.endpoint."; the     *)
(* other tokens are characters that occur in neither.                      *)
(***************************************************************************)

MaxIdLen == 3

Tokens == {"amzn1.alexa.", "endpoint.", "a", "b"}

Prefix == <<"amzn1.alexa.", "endpoint.">>

\* JavaScript's undefined, and the TypeError of a method call on it.
Undefined == <<"undefined">>
TypeError == <<"TypeError">>

Strings(n) == UNION {[1..m -> Tokens] : m \in 0..n}

\* JavaScript truthiness of a string-or-undefined.
Truthy(s) == s # Undefined /\ s # <<>>

\* s.startsWith(p)
StartsWith(s, p) == Len(s) >= Len(p) /\ SubSeq(s, 1, Len(p)) = p

\* s.includes("endpoint.")
IncludesEndpoint(s) == \E i \in 1..Len(s) : s[i] = "endpoint."

\* The positions at which p occurs in s.
Occurrences(s, p) ==
    {i \in 1..(Len(s) - Len(p) + 1) : SubSeq(s, i, i + Len(p) - 1) = p}

\* s.replace(p, ""): the first occurrence of p removed.
RemoveFirst(s, p) ==
    IF Occurrences(s, p) = {} THEN s
    ELSE LET i == CHOOSE j \in Occurrences(s, p) : \A k \in Occurrences(s, p) : j <= k
         IN  SubSeq(s, 1, i - 1) \o SubSeq(s, i + Len(p), Len(s))

\* A device record as extractEntityId reads it: each field a string or
\* undefined (a missing object on the path reads as undefined too).
\*   chrs         alternateIdentifiers.legacyIdentifiers.chrsIdentifier.entityId
\*   identifier   identifier.entityId
\*   resourceId   resource.id
\*   serialNumber serialNumber
DeviceRecord(chrs, identifier, resourceId, serialNumber) ==
    [chrs |-> chrs, identifier |-> identifier,
     resourceId |-> resourceId, serialNumber |-> serialNumber]

extractEntityId_ResourceFirst(device) ==
    IF device.resourceId # Undefined /\ IncludesEndpoint(device.resourceId)
    THEN RemoveFirst(device.resourceId, Prefix)
    ELSE IF Truthy(device.chrs) THEN device.chrs
    ELSE IF Truthy(device.identifier) THEN device.identifier
    ELSE IF Truthy(device.serialNumber) THEN device.serialNumber
    ELSE device.resourceId

extractEntityId(device) ==
    IF Truthy(device.chrs) THEN device.chrs
    ELSE IF Truthy(device.identifier) THEN device.identifier
    ELSE IF device.resourceId # Undefined /\ IncludesEndpoint(device.resourceId)
    THEN RemoveFirst(device.resourceId, Prefix)
    ELSE IF Truthy(device.serialNumber) THEN device.serialNumber
    ELSE device.resourceId

buildEndpointId_AlwaysPrefix(entityId) ==
    IF entityId = Undefined THEN TypeError
    ELSE Prefix \o entityId

buildEndpointId(entityId) ==
    IF entityId = Undefined THEN TypeError
    ELSE IF StartsWith(entityId, Prefix) THEN entityId
    ELSE Prefix \o entityId

\* The two identifiers getPrimaryLightIds derives from the primary light.
LightIds(primaryLight) ==
    LET entityId == extractEntityId(primaryLight)
    IN  [entityId |-> entityId, endpointId |-> buildEndpointId(entityId)]

\* The inputs of the helpers: short fields of every shape for the entity-ID
\* candidates, every string up to MaxIdLen for the resource ID.
ShortIds == {Undefined, <<>>, <<"a">>, <<"b">>}

DeviceRecords ==
    {DeviceRecord(c, i, r, n) :
        c \in ShortIds, i \in ShortIds,
        r \in Strings(MaxIdLen) \cup {Undefined}, n \in ShortIds}

BlankDevice == DeviceRecord(Undefined, Undefined, Undefined, Undefined)

NoIds == [op |-> "none"]

IdIdle ==
    /\ dev = BlankDevice
    /\ ent = <<>>
    /\ idres = NoIds

IdInit ==
    /\ idres = NoIds
    /\ \/ dev \in DeviceRecords /\ ent = <<>>
       \/ dev = BlankDevice /\ ent \in Strings(MaxIdLen)

\* extractEntityId(dev), and the pair getPrimaryLightIds makes of it.
Extract ==
    /\ idres = NoIds
    /\ idres' = [op |-> "extract", entityId |-> extractEntityId(dev), ids |-> LightIds(dev)]
    /\ UNCHANGED <<dev, ent, cacheVars, lightVars, bedroomVars, normVars, volumeVars, announceVars,
                   traceVars, raceVars>>

\* buildEndpointId(ent), and buildEndpointId of the result.
Build ==
    /\ idres = NoIds
    /\ idres' = [op |-> "build", endpointId |-> buildEndpointId(ent),
                 again |-> buildEndpointId(buildEndpointId(ent))]
    /\ UNCHANGED <<dev, ent, cacheVars, lightVars, bedroomVars, normVars, volumeVars, announceVars,
                   traceVars, raceVars>>

(***************************************************************************)
(* Discovery results: the favorites list and the endpoint graph            *)
(***************************************************************************)

MaxFavs == 2

\* The physical devices of the account. The entity ID of device d is <<d>>,
\* its resource ID the namespace prefix followed by d.
DeviceNames == {"a", "b", "c"}

EntityIdOf(d) == <<d>>
EndpointIdOf(d) == Prefix \o <<d>>
ApplianceIdOf(d) == <<"appliance:", d>>
SerialOf(d) == <<"serial:", d>>
DeviceTypeOf(d) == <<"type:", d>>

\* The shapes of a favorite, after SmartHomeFavoritesSchema:
\* alternateIdentifiers is nullable, resource.id is always a string.
FavKinds == {"light", "lightNoAlt", "plug", "inactive", "shortcut"}

Favorite(d, kind) ==
    [dev |-> d,
     active |-> kind # "inactive",
     type |-> IF kind = "shortcut" THEN "SHORTCUT" ELSE "ENDPOINT",
     category |-> IF kind = "plug" THEN "SMARTPLUG" ELSE "LIGHT",
     chrs |-> IF kind \in {"lightNoAlt", "shortcut"} THEN Undefined ELSE EntityIdOf(d),
     resourceId |-> IF kind = "shortcut" THEN <<"shortcut:", d>> ELSE EndpointIdOf(d)]

\* The shapes of an item of the endpoint graph: legacyAppliance, the chrs
\* identifier and the dms identifier can each be missing.
EndpointKinds == {"light", "lightNoAppliance", "plug", "echo", "echoNoEntity", "echoNoDms"}

Endpoint(d, kind) ==
    [dev |-> d,
     category |-> CASE kind \in {"light", "lightNoAppliance"} -> "LIGHT"
                    [] kind = "plug" -> "SMARTPLUG"
                    [] OTHER -> "ALEXA_VOICE_ENABLED",
     chrs |-> IF kind = "echoNoEntity" THEN Undefined ELSE EntityIdOf(d),
     applianceId |-> IF kind = "lightNoAppliance" THEN Undefined ELSE ApplianceIdOf(d),
     serial |-> IF kind \in {"echo", "echoNoEntity"} THEN SerialOf(d) ELSE Undefined,
     deviceType |-> IF kind \in {"echo", "echoNoEntity"} THEN DeviceTypeOf(d) ELSE Undefined]

\* Lists of at most n records, no device twice.
DistinctLists(records, n) ==
    {l \in UNION {[1..m -> records] : m \in 0..n} :
        \A i \in 1..Len(l), j \in 1..Len(l) : i # j => l[i].dev # l[j].dev}

FavLists == DistinctLists({Favorite(d, k) : d \in DeviceNames, k \in FavKinds}, MaxFavs)

PlainFavLists == DistinctLists({Favorite(d, "light") : d \in {"a", "b"}}, MaxFavs)

EndpointLists ==
    DistinctLists({Endpoint(d, k) : d \in {"a", "b"}, k \in EndpointKinds \ {"plug"}},
                  Cardinality({"a", "b"}))

\* The endpoint graph that lists the devices of a favorites list, complete.
EndpointsFor(favs) ==
    [i \in 1..Len(favs) |->
        Endpoint(favs[i].dev, IF favs[i].category = "LIGHT" THEN "light" ELSE "plug")]

\* A favorite as extractEntityId reads it (the schema keeps neither an
\* identifier nor a serialNumber field).
AsDevice(f) == DeviceRecord(f.chrs, Undefined, f.resourceId, Undefined)

(***************************************************************************)
(* Device resolver (utils/alexa-dynamic.ts)                                *)
(***************************************************************************)

\* A thrown error, where a function returns one.
Throw(msg) == [throw |-> TRUE, msg |-> msg]
Return(v) == [throw |-> FALSE, value |-> v]

IsSmartHomeDevice(favorite) == favorite.active /\ favorite.type = "ENDPOINT"
IsLight(device) == device.category = "LIGHT"

\* getSmartHomeFavorites as the handlers see it: the list, or an exception.
getSmartHomeFavorites(env) ==
    IF env.disc THEN Return(favorites) ELSE Throw("Failed to fetch favorites")

getCustomerSmartHomeEndpoints(env) ==
    IF env.disc THEN Return(endpoints)
    ELSE Throw("Failed to fetch customer smart home endpoints")

getSmartHomeEntities(env) ==
    LET favs == getSmartHomeFavorites(env)
    IN  IF favs.throw THEN favs
        ELSE Return(SelectSeq(favs.value, IsSmartHomeDevice))

getPrimaryLight_Last(env) ==
    LET devices == getSmartHomeEntities(env)
    IN  IF devices.throw THEN devices
        ELSE LET lightDevices == SelectSeq(devices.value, IsLight)
             IN  IF Len(lightDevices) = 0
                 THEN Throw("No smart home light devices found")
                 ELSE Return(lightDevices[Len(lightDevices)])

getPrimaryLight(env) ==
    LET devices == getSmartHomeEntities(env)
    IN  IF devices.throw THEN devices
        ELSE LET lightDevices == SelectSeq(devices.value, IsLight)
             IN  IF Len(lightDevices) = 0
                 THEN Throw("No smart home light devices found")
                 ELSE Return(Head(lightDevices))

\* The items endpoints.find(...) looks among: find returns the first, or
\* undefined when there is none.
OfCategory(items, category) == SelectSeq(items, LAMBDA e : e.category = category)

getLightApplianceId(env) ==
    LET eps == getCustomerSmartHomeEndpoints(env)
    IN  IF eps.throw THEN eps
        ELSE LET lightDevices == OfCategory(eps.value, "LIGHT")
             IN  IF Len(lightDevices) = 0 THEN Throw("No light device found")
                 ELSE Return(Head(lightDevices).applianceId)

\* The top-level entityId the code falls back to is not among the fields the
\* graph query asks for: it reads as undefined.
getEchoDeviceEntityId(env) ==
    LET eps == getCustomerSmartHomeEndpoints(env)
    IN  IF eps.throw THEN eps
        ELSE LET echoDevices == OfCategory(eps.value, "ALEXA_VOICE_ENABLED")
             IN  IF Len(echoDevices) = 0 THEN Throw("No Echo device found for sensors")
                 ELSE Return(IF Truthy(Head(echoDevices).chrs)
                             THEN Head(echoDevices).chrs ELSE Undefined)

\* getPrimaryLightIds of the light REST API.
getPrimaryLightIds(env) ==
    LET primaryLight == getPrimaryLight(env)
    IN  IF primaryLight.throw THEN primaryLight
        ELSE LET ids == LightIds(AsDevice(primaryLight.value))
             IN  IF ids.endpointId = TypeError THEN Throw("TypeError") ELSE Return(ids)

(***************************************************************************)
(* Light REST API (api/v1/lights.ts)                                       *)
(***************************************************************************)

\* What a request runs against: whether the Alexa credentials are
\* configured, whether the discovery queries succeed, whether the upstream
\* control/state endpoint answers 2xx.
Envs == [creds : BOOLEAN, disc : BOOLEAN, upOk : BOOLEAN]

WHITE_COLORS == {"warm_white", "soft_white", "white", "daylight_white", "cool_white"}

ACTUAL_COLORS ==
    {"red", "crimson", "salmon", "orange", "gold", "yellow", "green", "turquoise",
     "cyan", "sky_blue", "blue", "purple", "magenta", "pink", "lavender"}

SUPPORTED_COLORS == WHITE_COLORS \cup ACTUAL_COLORS

\* A JSON value of a request body: its JavaScript type, and the number or
\* the string it is.
JsNumber(n) == [type |-> "number", num |-> n, text |-> ""]
JsString(s) == [type |-> "string", num |-> 0, text |-> s]
JsBoolean(b) == [type |-> "boolean", num |-> 0, text |-> IF b THEN "true" ELSE "false"]
JsUndefined == [type |-> "undefined", num |-> 0, text |-> ""]

JsTruthy(v) ==
    CASE v.type = "number" -> v.num # 0
      [] v.type = "string" -> v.text # ""
      [] v.type = "boolean" -> v.text = "true"
      [] v.type = "object" -> TRUE
      [] OTHER -> FALSE

\* The parameter of a control request: its name and its value, the number
\* sent being value.num / per.
Param(name, value, per) == [name |-> name, value |-> value, per |-> per]
NoParam == Param("", JsUndefined, 1)

\* An upstream request: the endpoint, the identifier it is keyed by, the
\* operation and its parameter.
Call(api, id, op, param) == [api |-> api, id |-> id, op |-> op, param |-> param]

\* The outcome of a helper: whether it threw, and the requests it sent.
Sent(throw, msg, sent) == [throw |-> throw, msg |-> msg, sent |-> sent]

\* An HTTP response of the REST API and the upstream requests behind it.
Reply(status, error, sent) ==
    [status |-> status, error |-> error, lights |-> <<>>, sent |-> sent]

getLightState(env, entityId) ==
    IF ~env.creds THEN Sent(TRUE, "Missing Alexa credentials", <<>>)
    ELSE LET call == Call("phoenix.POST", entityId, "stateRequest", NoParam)
         IN  IF ~env.upOk THEN Sent(TRUE, "Alexa API error", <<call>>)
             ELSE Sent(FALSE, "", <<call>>)

controlLight(env, entityId, action, param) ==
    IF ~env.creds THEN Sent(TRUE, "Missing Alexa credentials", <<>>)
    ELSE LET call == Call("phoenix.PUT", entityId, action, param)
         IN  IF ~env.upOk THEN Sent(TRUE, "Alexa control API error", <<call>>)
             ELSE Sent(FALSE, "", <<call>>)

\* The device-type header comes from getPrimaryMediaDevice, whose failure is
\* swallowed: it does not change the request's target.
controlLightGraphQL(env, endpointId, operation) ==
    IF ~env.creds THEN Sent(TRUE, "Missing Alexa credentials", <<>>)
    ELSE LET call == Call("nexus.POST", endpointId, operation, NoParam)
         IN  IF ~env.upOk THEN Sent(TRUE, "Alexa GraphQL API error", <<call>>)
             ELSE Sent(FALSE, "", <<call>>)

\* GET /api/lights and /api/lights/list
listLights(env) ==
    LET smartHomeDevices == getSmartHomeEntities(env)
    IN  IF smartHomeDevices.throw
        THEN Reply(500, "Failed to fetch smart home devices", <<>>)
        ELSE LET lightDevices == SelectSeq(smartHomeDevices.value, IsLight)
             IN  [Reply(200, "", <<>>) EXCEPT
                     !.lights = [i \in 1..Len(lightDevices) |->
                                    extractEntityId(AsDevice(lightDevices[i]))]]

\* GET /api/lights/:id/state; hasState tells whether the upstream answer
\* carries a device state.
getState(id, env, hasState) ==
    LET smartHomeDevices == getSmartHomeEntities(env)
    IN  IF smartHomeDevices.throw THEN Reply(500, "Failed to verify light ID", <<>>)
        ELSE IF \A i \in 1..Len(smartHomeDevices.value) :
                    extractEntityId(AsDevice(smartHomeDevices.value[i])) # id
        THEN Reply(404, "Light not found", <<>>)
        ELSE LET applianceId == getLightApplianceId(env)
             IN  IF applianceId.throw THEN Reply(500, "Failed to get light state", <<>>)
                 ELSE LET deviceState == getLightState(env, applianceId.value)
                      IN  IF deviceState.throw \/ ~hasState
                          THEN Reply(500, "Failed to get light state", deviceState.sent)
                          ELSE Reply(200, "", deviceState.sent)

\* POST /api/lights/:id/power
postPower(id, on, env) ==
    LET ids == getPrimaryLightIds(env)
    IN  IF ids.throw THEN Reply(500, "Failed to get light endpoint ID", <<>>)
        ELSE IF on.type # "boolean"
        THEN Reply(400, "Invalid power state. Must be true or false", <<>>)
        ELSE LET operation == IF on.text = "true" THEN "turnOn" ELSE "turnOff"
                 result == controlLightGraphQL(env, ids.value.endpointId, operation)
             IN  IF result.throw THEN Reply(500, "Failed to control power", result.sent)
                 ELSE Reply(200, "", result.sent)

\* POST /api/lights/:id/brightness; the parameter sent is level / 100.
postBrightness(id, level, env) ==
    IF level.type # "number" \/ level.num < 0 \/ level.num > 100
    THEN Reply(400, "Invalid brightness level. Must be 0-100", <<>>)
    ELSE LET result == controlLight(env, id, "setBrightness",
                                    Param("brightness", level, 100))
         IN  IF result.throw THEN Reply(500, "Failed to set brightness", result.sent)
             ELSE Reply(200, "", result.sent)

\* POST /api/lights/:id/color
postColor(id, mode, value, env) ==
    IF ~JsTruthy(mode) \/ ~JsTruthy(value) THEN Reply(400, "Missing mode or value", <<>>)
    ELSE IF ~(\/ mode = JsString("name") /\ value.type = "string"
                                         /\ value.text \in SUPPORTED_COLORS
              \/ mode = JsString("tempK") /\ value.type = "number")
    THEN Reply(400, "Unsupported color mode or value", <<>>)
    ELSE LET result ==
                 IF mode = JsString("tempK")
                 THEN controlLight(env, id, "setColorTemperature",
                                   Param("colorTemperatureInKelvin", value, 1))
                 ELSE IF value.text \in WHITE_COLORS
                 THEN controlLight(env, id, "setColorTemperature",
                                   Param("colorTemperatureName", value, 1))
                 ELSE controlLight(env, id, "setColor",
                                   Param("colorName", value, 1))
         IN  IF result.throw THEN Reply(500, "Failed to set color", result.sent)
             ELSE Reply(200, "", result.sent)

\* POST /api/lights/:id/control; brightness is the body's 0-1 number in
\* hundredths. A failure of the colour change that follows is swallowed;
\* colorOk tells whether the upstream answers that second write 2xx.
postControl(id, featureOperationName, brightness, color, colorOk, env) ==
    LET ids == getPrimaryLightIds(env)
        colorSent ==
            IF color.type = "string" /\ color.text \in SUPPORTED_COLORS
            THEN controlLight([env EXCEPT !.upOk = colorOk], id, "setColor",
                              Param("colorName", color, 1)).sent
            ELSE <<>>
    IN  IF ids.throw THEN Reply(500, "Failed to get light endpoint ID", <<>>)
        ELSE IF featureOperationName \in {"turnOn", "turnOff"}
        THEN LET result == controlLightGraphQL(env, ids.value.endpointId, featureOperationName)
             IN  IF result.throw THEN Reply(500, "Failed to control light", result.sent)
                 ELSE Reply(200, "", result.sent \o colorSent)
        ELSE IF featureOperationName = "setBrightness"
        THEN IF brightness.type # "number" \/ brightness.num < 0 \/ brightness.num > 100
             THEN Reply(400, "Invalid brightness. Must be 0-1", <<>>)
             ELSE LET result == controlLight(env, id, "setBrightness",
                                             Param("brightness", brightness, 100))
                  IN  IF result.throw THEN Reply(500, "Failed to control light", result.sent)
                      ELSE Reply(200, "", result.sent \o colorSent)
        ELSE Reply(400, "Unsupported operation", <<>>)

(***************************************************************************)
(* Light tools (mcp/tools/lights.ts)                                       *)
(***************************************************************************)

\* A tool result: the error flag, the light the tool addressed, and the
\* upstream requests the REST API sent for it.
ToolResult(isError, text, lightId, sent) ==
    [isError |-> isError, text |-> text, lightId |-> lightId, sent |-> sent]

MissingApiBase ==
    ToolResult(TRUE, "ERROR: API_BASE environment variable is required", Undefined, <<>>)

getFirstAvailableLight(env) ==
    LET response == listLights(env)
    IN  IF response.status # 200 THEN Throw("Failed to get lights list")
        ELSE IF Len(response.lights) = 0 THEN Throw("No lights found in your account")
        ELSE Return(response.lights[1])

\* const lightId = id || (await getFirstAvailableLight(apiBase))
LightIdFor(id, env) == IF Truthy(id) THEN Return(id) ELSE getFirstAvailableLight(env)

\* The tail every light tool shares: the REST response made the tool result.
LightToolResult(lightId, response, failure) ==
    IF response.status # 200 THEN ToolResult(TRUE, failure, lightId, response.sent)
    ELSE ToolResult(FALSE, "", lightId, response.sent)

setLightPower(id, on, apiBase, env) ==
    IF ~apiBase THEN MissingApiBase
    ELSE LET lightId == LightIdFor(id, env)
         IN  IF lightId.throw
             THEN ToolResult(TRUE, "Error controlling light power", Undefined, <<>>)
             ELSE LightToolResult(lightId.value,
                                  postPower(lightId.value, JsBoolean(on), env),
                                  "Error controlling light power")

setLightBrightness(id, level, apiBase, env) ==
    IF ~apiBase THEN MissingApiBase
    ELSE LET lightId == LightIdFor(id, env)
         IN  IF lightId.throw
             THEN ToolResult(TRUE, "Error setting light brightness", Undefined, <<>>)
             ELSE LightToolResult(lightId.value,
                                  postBrightness(lightId.value, JsNumber(level), env),
                                  "Error setting light brightness")

setLightColor(id, mode, value, apiBase, env) ==
    IF ~apiBase THEN MissingApiBase
    ELSE LET lightId == LightIdFor(id, env)
         IN  IF lightId.throw
             THEN ToolResult(TRUE, "Error setting light color", Undefined, <<>>)
             ELSE LightToolResult(lightId.value,
                                  postColor(lightId.value, JsString(mode), value, env),
                                  "Error setting light color")

(***************************************************************************)
(* Do-not-disturb (api/v1/dnd.ts, mcp/tools/dnd.ts)                        *)
(***************************************************************************)

\* PUT /api/dnd
putDnd(deviceSerialNumber, deviceType, env) ==
    IF ~env.creds THEN Reply(500, "Missing Alexa credentials", <<>>)
    ELSE IF ~Truthy(deviceSerialNumber) \/ ~Truthy(deviceType)
    THEN Reply(400, "deviceSerialNumber and deviceType are required", <<>>)
    ELSE LET call == Call("dnd.PUT", deviceSerialNumber \o deviceType, "status", NoParam)
         IN  IF ~env.upOk THEN Reply(502, "Alexa API error", <<call>>)
             ELSE Reply(200, "", <<call>>)

setDndStatus(deviceSerialNumber, deviceType, apiBase, env) ==
    LET endpointsFound == getCustomerSmartHomeEndpoints(env)
        echoDevices == OfCategory(endpointsFound.value, "ALEXA_VOICE_ENABLED")
        echoDevice == Head(echoDevices)
        Put(serial, type) ==
            LET response == putDnd(serial, type, env)
            IN  IF response.status # 200
                THEN ToolResult(TRUE, "Failed to set DND status", serial, response.sent)
                ELSE ToolResult(FALSE, "", serial, response.sent)
    IN  IF ~apiBase THEN MissingApiBase
        ELSE IF Truthy(deviceSerialNumber) /\ Truthy(deviceType)
        THEN Put(deviceSerialNumber, deviceType)
        ELSE IF endpointsFound.throw
        THEN ToolResult(TRUE, "Failed to set DND status", Undefined, <<>>)
        ELSE IF Len(echoDevices) = 0
        THEN ToolResult(TRUE, "No Echo device found for DND control", Undefined, <<>>)
        ELSE IF ~Truthy(echoDevice.serial) \/ ~Truthy(echoDevice.deviceType)
        THEN ToolResult(TRUE, "Could not extract device serial number or type from Echo device",
                        Undefined, <<>>)
        ELSE Put(echoDevice.serial, echoDevice.deviceType)

(***************************************************************************)
(* Discovery queries of the handlers                                       *)
(*                                                                         *)
(* The cached discovery queries a handler runs, by cache key, in the order *)
(* it runs them. A query is sent upstream unless the cache holds a fresh   *)
(* entry for its key; a request that starts on an empty cache sends the    *)
(* first query of every key upstream.                                      *)
(***************************************************************************)

\* getSmartHomeEntities, behind listLights and getPrimaryLightIds.
listLightsQueries == <<"smart_home_favorites">>

\* The verification of the id, then getLightApplianceId.
getStateQueries(id, env) ==
    LET smartHomeDevices == getSmartHomeEntities(env)
    IN  IF smartHomeDevices.throw
        THEN <<"smart_home_favorites">>
        ELSE IF \A i \in 1..Len(smartHomeDevices.value) :
                    extractEntityId(AsDevice(smartHomeDevices.value[i])) # id
        THEN <<"smart_home_favorites">>
        ELSE <<"smart_home_favorites", "customer_smart_home_endpoints">>

\* getPrimaryMediaDevice, which controlLightGraphQL asks for the device
\* type once it has found the credentials.
controlLightGraphQLQueries(env) == IF env.creds THEN <<"alexa_devices">> ELSE <<>>

\* getPrimaryLightIds first, the body and the write after it.
postPowerQueries(on, env) ==
    IF getPrimaryLightIds(env).throw \/ on.type # "boolean"
    THEN <<"smart_home_favorites">>
    ELSE <<"smart_home_favorites">> \o controlLightGraphQLQueries(env)

postControlQueries(featureOperationName, env) ==
    IF getPrimaryLightIds(env).throw \/ featureOperationName \notin {"turnOn", "turnOff"}
    THEN <<"smart_home_favorites">>
    ELSE <<"smart_home_favorites">> \o controlLightGraphQLQueries(env)

\* A light tool lists the lights when it is given no id, then calls the
\* REST operation; rest is what that operation queries.
lightToolQueries(id, apiBase, env, rest) ==
    IF ~apiBase THEN <<>>
    ELSE IF Truthy(id) THEN rest
    ELSE IF LightIdFor(id, env).throw THEN listLightsQueries
    ELSE listLightsQueries \o rest

\* setDndStatus looks the Echo device up when it is not given both fields.
setDndStatusQueries(deviceSerialNumber, deviceType, apiBase) ==
    IF apiBase /\ ~(Truthy(deviceSerialNumber) /\ Truthy(deviceType))
    THEN <<"customer_smart_home_endpoints">>
    ELSE <<>>

(***************************************************************************)
(* Requests                                                                *)
(*                                                                         *)
(* The handlers keep no state of their own between requests, so a          *)
(* behaviour serves one request against the discovery results it started   *)
(* with: lreq is the request, lres the answer, calls the upstream requests *)
(* sent for it.                                                            *)
(***************************************************************************)

NoReq == [handler |-> "none"]
NoRes == [status |-> 0]

\* The ids a client puts in a URL or a tool argument: the entity IDs the
\* light list can return, and for a tool no id at all.
UrlIds == {EntityIdOf(d) : d \in {"a", "b"}}
ToolIds == UrlIds \cup {Undefined}

OnBodies == {JsBoolean(TRUE), JsBoolean(FALSE), JsUndefined}
LevelBodies == {JsNumber(100), JsNumber(101), JsUndefined}
ColorBodies ==
    {[mode |-> JsString("name"), value |-> JsString("red")],
     [mode |-> JsString("name"), value |-> JsString("warm_white")],
     [mode |-> JsString("name"), value |-> JsString("mauve")],
     [mode |-> JsString("tempK"), value |-> JsNumber(2700)],
     [mode |-> JsUndefined, value |-> JsString("red")]}
Operations == {"turnOn", "turnOff", "setBrightness", "toggle"}

LightIdle ==
    /\ favorites = <<>>
    /\ endpoints = <<>>
    /\ lreq = NoReq
    /\ lres = NoRes
    /\ calls = <<>>

LightInit ==
    /\ lreq = NoReq
    /\ lres = NoRes
    /\ calls = <<>>
    /\ \/ favorites \in FavLists /\ endpoints = EndpointsFor(favorites)
       \/ favorites \in PlainFavLists /\ endpoints \in EndpointLists

\* A request is served: res is what the handler makes of req, queries the
\* discovery queries it runs on the way.
Serve(req, res, queries) ==
    /\ lreq' = req
    /\ lres' = res
    /\ calls' = calls \o res.sent
    /\ lookups' = queries
    /\ UNCHANGED <<favorites, endpoints, cacheVars, idVars, bedroomVars, normVars, volumeVars, announceVars,
                   breq, raceVars>>

ListLights(env) ==
    /\ lreq = NoReq
    /\ Serve([handler |-> "listLights", env |-> env], listLights(env), listLightsQueries)

GetState(id, env, hasState) ==
    /\ lreq = NoReq
    /\ Serve([handler |-> "getState", id |-> id, env |-> env], getState(id, env, hasState),
             getStateQueries(id, env))

PostPower(id, on, env) ==
    /\ lreq = NoReq
    /\ Serve([handler |-> "postPower", id |-> id, on |-> on, env |-> env],
             postPower(id, on, env), postPowerQueries(on, env))

PostBrightness(id, level, env) ==
    /\ lreq = NoReq
    /\ Serve([handler |-> "postBrightness", id |-> id, level |-> level, env |-> env],
             postBrightness(id, level, env), <<>>)

PostColor(id, mode, value, env) ==
    /\ lreq = NoReq
    /\ Serve([handler |-> "postColor", id |-> id, mode |-> mode, value |-> value, env |-> env],
             postColor(id, mode, value, env), <<>>)

PostControl(id, op, brightness, color, colorOk, env) ==
    /\ lreq = NoReq
    /\ Serve([handler |-> "postControl", id |-> id, op |-> op, brightness |-> brightness,
              color |-> color, colorOk |-> colorOk, env |-> env],
             postControl(id, op, brightness, color, colorOk, env),
             postControlQueries(op, env))

SetLightPower(id, on, apiBase, env) ==
    /\ lreq = NoReq
    /\ Serve([handler |-> "setLightPower", id |-> id, on |-> on, apiBase |-> apiBase,
              env |-> env],
             setLightPower(id, on, apiBase, env),
             lightToolQueries(id, apiBase, env, postPowerQueries(JsBoolean(on), env)))

SetLightBrightness(id, level, apiBase, env) ==
    /\ lreq = NoReq
    /\ Serve([handler |-> "setLightBrightness", id |-> id, level |-> level,
              apiBase |-> apiBase, env |-> env],
             setLightBrightness(id, level, apiBase, env),
             lightToolQueries(id, apiBase, env, <<>>))

SetLightColor(id, mode, value, apiBase, env) ==
    /\ lreq = NoReq
    /\ Serve([handler |-> "setLightColor", id |-> id, mode |-> mode, value |-> value,
              apiBase |-> apiBase, env |-> env],
             setLightColor(id, mode, value, apiBase, env),
             lightToolQueries(id, apiBase, env, <<>>))

PutDnd(serial, type, env) ==
    /\ lreq = NoReq
    /\ Serve([handler |-> "putDnd", serial |-> serial, type |-> type, env |-> env],
             putDnd(serial, type, env), <<>>)

SetDndStatus(serial, type, apiBase, env) ==
    /\ lreq = NoReq
    /\ Serve([handler |-> "setDndStatus", serial |-> serial, type |-> type,
              apiBase |-> apiBase, env |-> env],
             setDndStatus(serial, type, apiBase, env),
             setDndStatusQueries(serial, type, apiBase))

\* The two identifier getters of the resolver, applied on their own.
Resolved(r) ==
    [throw |-> r.throw, msg |-> IF r.throw THEN r.msg ELSE "",
     value |-> IF r.throw THEN Undefined ELSE r.value, sent |-> <<>>]

GetLightApplianceId(env) ==
    /\ lreq = NoReq
    /\ Serve([handler |-> "getLightApplianceId", env |-> env], Resolved(getLightApplianceId(env)),
             <<"customer_smart_home_endpoints">>)

GetEchoDeviceEntityId(env) ==
    /\ lreq = NoReq
    /\ Serve([handler |-> "getEchoDeviceEntityId", env |-> env],
             Resolved(getEchoDeviceEntityId(env)),
             <<"customer_smart_home_endpoints">>)

(***************************************************************************)
(* Bedroom read (api/v1/bedroom.ts): capability states                     *)
(*                                                                         *)
(* A capability state arrives either as an object or as a string holding   *)
(* its JSON text. A JSON text is the sequence of its tokens: an opening    *)
(* brace, the namespace, the name, the value and a closing brace.          *)
(***************************************************************************)

MaxCaps == 2

JsObject(n, s) == [type |-> "object", num |-> n, text |-> s]
JsNull == [type |-> "null", num |-> 0, text |-> ""]

Capability(namespace, name, value) ==
    [namespace |-> namespace, name |-> name, value |-> value]

NoCapability == Capability("", "", JsUndefined)

\* The capability states the upstream reports. A temperature value is an
\* object {value, scale}; the temperatures are ones whose conversion is an
\* integer.
Capabilities ==
    {Capability("Alexa.PowerController", "powerState", JsString("ON")),
     Capability("Alexa.PowerController", "powerState", JsString("OFF")),
     Capability("Alexa.BrightnessController", "brightness", JsNumber(50)),
     Capability("Alexa.TemperatureSensor", "temperature", JsObject(20, "CELSIUS")),
     Capability("Alexa.LightSensor", "illuminance", JsNumber(7)),
     Capability("Alexa.MotionSensor", "detectionState", JsString("DETECTED"))}

\* JSON.stringify of a capability state.
JsonStringify(cap) == <<"{", cap.namespace, cap.name, cap.value, "}">>

\* JSON.parse: the object a well-formed text spells, or a SyntaxError.
JsonParse(text) ==
    IF Len(text) = 5 /\ text[1] = "{" /\ text[5] = "}"
    THEN Return(Capability(text[2], text[3], text[4]))
    ELSE Throw("SyntaxError")

\* An element of capabilityStates: a string with its text, or an object.
StringEntry(text) == [wire |-> "string", text |-> text, obj |-> NoCapability]
ObjectEntry(cap) == [wire |-> "object", text |-> <<>>, obj |-> cap]

\* A text cut off before its value.
Truncated(cap) == SubSeq(JsonStringify(cap), 1, 3)

WireEntries ==
    {StringEntry(JsonStringify(cap)) : cap \in Capabilities}
        \cup {ObjectEntry(cap) : cap \in Capabilities}
        \cup {StringEntry(Truncated(Capability("Alexa.PowerController", "powerState",
                                               JsString("ON"))))}

CapLists == UNION {[1..n -> WireEntries] : n \in 0..MaxCaps}

DeviceState(entityId, capabilityStates) ==
    [entityId |-> entityId, capabilityStates |-> capabilityStates]

\* The body of a 2xx state response: no deviceStates at all, or the entries
\* of one device, or the first entry from one device and the rest from
\* another.
Batches ==
    {[hasDeviceStates |-> FALSE, deviceStates |-> <<>>]}
        \cup {[hasDeviceStates |-> TRUE, deviceStates |-> <<DeviceState("e1", l)>>] :
                 l \in CapLists}
        \cup {[hasDeviceStates |-> TRUE,
               deviceStates |-> <<DeviceState("e1", <<Head(l)>>), DeviceState("e2", Tail(l))>>] :
                 l \in {m \in CapLists : Len(m) >= 2}}

\* capabilityStates.map(cap => { try { parse } catch { return cap } })
ParseCapability(cap) ==
    IF cap.wire = "string"
    THEN LET parsed == JsonParse(cap.text)
         IN  IF parsed.throw THEN cap ELSE ObjectEntry(parsed.value)
    ELSE cap

ParseDeviceStates(deviceStates) ==
    [i \in 1..Len(deviceStates) |->
        DeviceState(deviceStates[i].entityId,
                    [j \in 1..Len(deviceStates[i].capabilityStates) |->
                        ParseCapability(deviceStates[i].capabilityStates[j])])]

\* The capability states of all devices in the order the loops visit them.
RECURSIVE Flatten(_)
Flatten(deviceStates) ==
    IF Len(deviceStates) = 0 THEN <<>>
    ELSE Head(deviceStates).capabilityStates \o Flatten(Tail(deviceStates))

Bucket_First(caps, pairs) ==
    LET hits == {i \in 1..Len(caps) :
                    /\ caps[i].wire = "object"
                    /\ <<caps[i].obj.namespace, caps[i].obj.name>> \in pairs}
    IN  IF hits = {} THEN NoCapability
        ELSE caps[CHOOSE i \in hits : \A j \in hits : i <= j].obj

\* The capability the bucketing loop leaves in a slot fed by the given
\* (namespace, name) pairs: the last object of such a pair, strings being
\* skipped; NoCapability stands for null.
Bucket(caps, pairs) ==
    LET hits == {i \in 1..Len(caps) :
                    /\ caps[i].wire = "object"
                    /\ <<caps[i].obj.namespace, caps[i].obj.name>> \in pairs}
    IN  IF hits = {} THEN NoCapability
        ELSE caps[CHOOSE i \in hits : \A j \in hits : j <= i].obj

\* The colour slot keeps the value of a colour temperature and the name of
\* a colour.
ColorValue(cap) ==
    IF cap.namespace = "Alexa.ColorPropertiesController"
    THEN JsString(cap.value.text) ELSE cap.value

\* x || d
OrElse(v, d) == IF JsTruthy(v) THEN v ELSE d

Temperature_Truncating(temp) ==
    IF temp.value.type = "object" /\ temp.value.text = "CELSIUS"
    THEN [celsius |-> JsNumber(temp.value.num),
          fahrenheit |-> JsNumber((temp.value.num \div 5) * 9 + 30)]
    ELSE IF temp.value.type = "object" /\ temp.value.text = "FAHRENHEIT"
    THEN [celsius |-> JsNumber(((temp.value.num - 30) \div 9) * 5),
          fahrenheit |-> JsNumber(temp.value.num)]
    ELSE [celsius |-> JsUndefined, fahrenheit |-> JsUndefined]

\* The temperature in both scales, or undefined for both. The divisions are
\* exact for the temperatures of Capabilities.
Temperature(temp) ==
    IF temp.value.type = "object" /\ temp.value.text = "CELSIUS"
    THEN [celsius |-> JsNumber(temp.value.num),
          fahrenheit |-> JsNumber((temp.value.num * 9) \div 5 + 32)]
    ELSE IF temp.value.type = "object" /\ temp.value.text = "FAHRENHEIT"
    THEN [celsius |-> JsNumber(((temp.value.num - 32) * 5) \div 9),
          fahrenheit |-> JsNumber(temp.value.num)]
    ELSE [celsius |-> JsUndefined, fahrenheit |-> JsUndefined]

\* The reading the handler builds from the parsed device states. The
\* wall-clock fields and the summary text are left out.
Reading(deviceStates) ==
    LET caps == Flatten(deviceStates)
        temp == Bucket(caps, {<<"Alexa.TemperatureSensor", "temperature">>})
        illuminance == Bucket(caps, {<<"Alexa.LightSensor", "illuminance">>})
        lightPower == Bucket(caps, {<<"Alexa.PowerController", "powerState">>})
        lightBrightness == Bucket(caps, {<<"Alexa.BrightnessController", "brightness">>})
        lightColor == Bucket(caps, {<<"Alexa.ColorTemperatureController",
                                      "colorTemperatureInKelvin">>,
                                    <<"Alexa.ColorPropertiesController", "colorProperties">>})
        motionDetection == Bucket(caps, {<<"Alexa.MotionSensor", "detectionState">>})
        degrees == Temperature(temp)
    IN  [temperature |-> [celsius |-> OrElse(degrees.celsius, JsNull),
                          fahrenheit |-> OrElse(degrees.fahrenheit, JsNull)],
         illuminance |-> OrElse(illuminance.value, JsNull),
         motion |-> [detected |-> motionDetection.value = JsString("DETECTED")],
         light |-> [on |-> lightPower.value = JsString("ON"),
                    brightness |-> OrElse(lightBrightness.value, JsNumber(0)),
                    color |-> OrElse(ColorValue(lightColor), JsNull)],
         deviceStates |-> [i \in 1..Len(deviceStates) |->
                              [entityId |-> deviceStates[i].entityId,
                               value |-> deviceStates[i].capabilityStates]]]

(***************************************************************************)
(* Bedroom read: the handler                                               *)
(***************************************************************************)

StateRequest(entityId, entityType) == [entityId |-> entityId, entityType |-> entityType]

\* if (id && !addedEntityIds.has(id)) { stateRequests.push(...); add(id) }
Push(stateRequests, id, entityType) ==
    IF Truthy(id) /\ \A i \in 1..Len(stateRequests) : stateRequests[i].entityId # id
    THEN Append(stateRequests, StateRequest(id, entityType))
    ELSE stateRequests

\* The environment as the k-th run of getCustomerSmartHomeEndpoints within
\* the read finds it: firstOk is the first run the upstream answers 2xx; the
\* runs after it are served from the cache.
AtQuery(env, k, firstOk) == [env EXCEPT !.disc = k >= firstOk]

\* Strategy 1: the two identifier getters; a failure of either is logged.
Strategy1(echoEnv, lightEnv, stateRequests) ==
    LET echoEntityId == getEchoDeviceEntityId(echoEnv)
        withEcho == IF echoEntityId.throw THEN stateRequests
                    ELSE Push(stateRequests, echoEntityId.value, "ENTITY")
        lightApplianceId == getLightApplianceId(lightEnv)
    IN  IF lightApplianceId.throw THEN withEcho
        ELSE Push(withEcho, lightApplianceId.value, "APPLIANCE")

\* Strategy 2: the entity ID and the appliance ID of every endpoint. The
\* endpoints of the model carry no merged appliance IDs.
RECURSIVE SweepEndpoints(_, _)
SweepEndpoints(items, stateRequests) ==
    IF Len(items) = 0 THEN stateRequests
    ELSE SweepEndpoints(Tail(items),
                        Push(Push(stateRequests, Head(items).chrs, "ENTITY"),
                             Head(items).applianceId, "APPLIANCE"))

Strategy2(env, stateRequests) ==
    LET found == getCustomerSmartHomeEndpoints(env)
    IN  IF found.throw THEN stateRequests ELSE SweepEndpoints(found.value, stateRequests)

\* Strategy 3: an AlexaBridge entity for every device of the device list
\* that has a serial number and a device type.
BridgeEntityId(device) ==
    <<"AlexaBridge_">> \o device.serialNumber \o <<"@">> \o device.deviceType
        \o <<"_">> \o device.serialNumber

RECURSIVE SweepDevices(_, _)
SweepDevices(devices, stateRequests) ==
    IF Len(devices) = 0 THEN stateRequests
    ELSE SweepDevices(Tail(devices),
                      IF Truthy(Head(devices).serialNumber) /\ Truthy(Head(devices).deviceType)
                      THEN Push(stateRequests, BridgeEntityId(Head(devices)), "APPLIANCE")
                      ELSE stateRequests)

Strategy3_Aborting(devicesResponse, stateRequests) ==
    IF devicesResponse.ok THEN SweepDevices(devicesResponse.devices, stateRequests)
    ELSE <<>>

Strategy3(devicesResponse, stateRequests) ==
    IF devicesResponse.ok THEN SweepDevices(devicesResponse.devices, stateRequests)
    ELSE stateRequests

\* The answers of the device-list API: a failure, or a list.
DevicesResponses ==
    {[ok |-> FALSE, devices |-> <<>>],
     [ok |-> TRUE, devices |-> <<>>],
     [ok |-> TRUE, devices |-> <<[serialNumber |-> SerialOf("b"), deviceType |-> Undefined],
                                 [serialNumber |-> SerialOf("a"),
                                  deviceType |-> DeviceTypeOf("a")]>>]}

\* A response of the handler: the status, the error, the reading and the
\* state requests sent upstream for it.
BedroomResponse(status, error, reading, sent) ==
    [status |-> status, error |-> error, reading |-> reading, sent |-> sent]

NoReading == [deviceStates |-> <<>>]
NoResponse == BedroomResponse(0, "", NoReading, <<>>)

\* bedroomHandler: cached is the entry of the edge cache for the URL, batch
\* the body of the state response when it is 2xx. A non-2xx status is passed
\* through.
bedroomHandler(env, firstOk, cached, devicesResponse, batch) ==
    LET stateRequests ==
            Strategy3(devicesResponse,
                      Strategy2(AtQuery(env, 3, firstOk),
                                Strategy1(AtQuery(env, 1, firstOk),
                                          AtQuery(env, 2, firstOk), <<>>)))
    IN  IF ~env.creds
        THEN BedroomResponse(500, "Missing UBID_MAIN or AT_MAIN in environment.",
                             NoReading, <<>>)
        ELSE IF cached # NoResponse THEN [cached EXCEPT !.sent = <<>>]
        ELSE IF Len(stateRequests) = 0
        THEN BedroomResponse(404, "No devices found with any strategy", NoReading, <<>>)
        ELSE IF ~env.upOk
        THEN BedroomResponse(503, "Alexa API error", NoReading, stateRequests)
        ELSE BedroomResponse(200, "",
                             Reading(IF batch.hasDeviceStates
                                     THEN ParseDeviceStates(batch.deviceStates) ELSE <<>>),
                             stateRequests)

\* The endpoint graphs the bedroom read runs against.
BedroomEndpointLists ==
    {<<>>,
     <<Endpoint("a", "light"), Endpoint("b", "echo")>>,
     <<Endpoint("a", "lightNoAppliance"), Endpoint("b", "echoNoEntity")>>}

NoBatch == [hasDeviceStates |-> FALSE, deviceStates |-> <<>>]

BedroomIdle ==
    /\ rawData = NoBatch
    /\ edgeCache = NoResponse
    /\ jsonResponse = NoResponse

BedroomInit ==
    /\ edgeCache = NoResponse
    /\ jsonResponse = NoResponse
    /\ favorites = <<>>
    /\ \/ rawData \in Batches /\ endpoints = <<Endpoint("a", "light"), Endpoint("b", "echo")>>
       \/ rawData = NoBatch /\ endpoints \in BedroomEndpointLists
    /\ lreq = NoReq
    /\ lres = NoRes
    /\ calls = <<>>

\* The bedroom read as the sweep is followed: one state response, every
\* endpoint graph.
SweepInit ==
    /\ edgeCache = NoResponse
    /\ jsonResponse = NoResponse
    /\ favorites = <<>>
    /\ rawData \in {NoBatch, [hasDeviceStates |-> TRUE, deviceStates |-> <<>>]}
    /\ endpoints \in BedroomEndpointLists
    /\ lreq = NoReq
    /\ lres = NoRes
    /\ calls = <<>>

\* The discovery queries of the sweep: getEchoDeviceEntityId and
\* getLightApplianceId of strategy 1 and the endpoints of strategy 2 each
\* run getCustomerSmartHomeEndpoints.
bedroomQueries(env, cached) ==
    IF ~env.creds \/ cached # NoResponse THEN <<>>
    ELSE <<"customer_smart_home_endpoints", "customer_smart_home_endpoints",
           "customer_smart_home_endpoints">>

\* GET /api/bedroom; a 200 response made of a state response is put in the
\* edge cache.
Bedroom(env, firstOk, devicesResponse) ==
    LET res == bedroomHandler(env, firstOk, edgeCache, devicesResponse, rawData)
        fetched == env.creds /\ edgeCache = NoResponse /\ res.status = 200
    IN  /\ env.disc <=> firstOk = 1
        /\ jsonResponse' = res
        /\ edgeCache' = IF fetched THEN res ELSE edgeCache
        /\ lookups' = bedroomQueries(env, edgeCache)
        /\ breq' = [handler |-> "bedroom", env |-> env, firstOk |-> firstOk,
                    devicesResponse |-> devicesResponse,
                    cached |-> edgeCache # NoResponse]
        /\ UNCHANGED <<rawData, cacheVars, idVars, lightVars, normVars, volumeVars, announceVars,
                   raceVars>>

\* The edge cache drops the entry when its max-age of 5 s has passed.
EdgeExpire ==
    /\ edgeCache # NoResponse
    /\ edgeCache' = NoResponse
    /\ UNCHANGED <<rawData, jsonResponse, cacheVars, idVars, lightVars, normVars, volumeVars, announceVars,
                   traceVars, raceVars>>

(***************************************************************************)
(* Capability-state normalisers                                            *)
(*                                                                         *)
(* Four places turn the capability states of a state response into a       *)
(* reading: the bedroom read (api/v1/bedroom.ts), the sensor read          *)
(* (api/v1/sensors.ts), the light state read (api/v1/lights.ts) and the    *)
(* light check of the night gate (utils/alexa.ts). Each is applied to      *)
(* every state response of a small universe of capability states.          *)
(***************************************************************************)

\* The temperatures the sensors report, per scale; each converts to an
\* integer in the other scale.
Celsius == {0, 20, 0 - 40}
Fahrenheit == {32, 68}

SensorCapabilities ==
    {Capability("Alexa.PowerController", "powerState", JsString("ON")),
     Capability("Alexa.PowerController", "powerState", JsString("OFF")),
     Capability("Alexa.BrightnessController", "brightness", JsNumber(50)),
     Capability("Alexa.ColorTemperatureController", "colorTemperatureInKelvin",
                JsNumber(2700)),
     Capability("Alexa.ColorPropertiesController", "colorProperties", JsObject(0, "red")),
     Capability("Alexa.LightSensor", "illuminance", JsNumber(7)),
     Capability("Alexa.MotionSensor", "detectionState", JsString("DETECTED"))}
        \cup {Capability("Alexa.TemperatureSensor", "temperature", JsObject(c, "CELSIUS")) :
                 c \in Celsius}
        \cup {Capability("Alexa.TemperatureSensor", "temperature", JsObject(f, "FAHRENHEIT")) :
                 f \in Fahrenheit}

SensorEntries ==
    {StringEntry(JsonStringify(cap)) : cap \in SensorCapabilities}
        \cup {ObjectEntry(cap) : cap \in SensorCapabilities}
        \cup {StringEntry(Truncated(Capability("Alexa.LightSensor", "illuminance",
                                               JsNumber(7))))}

SensorLists == UNION {[1..n -> SensorEntries] : n \in 0..MaxCaps}

\* The deviceStates of a state response: none, the entries of one device,
\* or the first entry from one device and the rest from another.
StateResponses ==
    {<<>>}
        \cup {<<DeviceState("e1", l)>> : l \in SensorLists}
        \cup {<<DeviceState("e1", <<Head(l)>>), DeviceState("e2", Tail(l))>> :
                 l \in {m \in SensorLists : Len(m) >= 2}}

\* typeof cap === "string" ? JSON.parse(cap) : cap
Decode(cap) == IF cap.wire = "string" THEN JsonParse(cap.text) ELSE Return(cap.obj)

\* JSON.parse(cap): an argument that is not a string is first converted to
\* one, and the text an object converts to is not JSON.
ObjectText == <<"[object Object]">>

JsonParseCoerced(cap) == JsonParse(IF cap.wire = "string" THEN cap.text ELSE ObjectText)

\* The capability states the light state read and the night gate get out
\* of JSON.parse; an entry whose parse throws is skipped.
CoercedEntry(cap) ==
    LET parsed == JsonParseCoerced(cap)
    IN  IF parsed.throw THEN StringEntry(ObjectText) ELSE ObjectEntry(parsed.value)

ParseCoerced(capabilityStates) ==
    [i \in 1..Len(capabilityStates) |-> CoercedEntry(capabilityStates[i])]

\* The local variables temperatureCelsius and temperatureFahrenheit of the
\* bedroom read.
Degrees(deviceStates) ==
    Temperature(Bucket(Flatten(deviceStates), {<<"Alexa.TemperatureSensor", "temperature">>}))

\* The bedroom read's normaliser: the parse, then the reading.
bedroomReading(deviceStates) ==
    LET parsed == ParseDeviceStates(deviceStates)
    IN  [reading |-> Reading(parsed),
         temperatureCelsius |-> Degrees(parsed).celsius,
         temperatureFahrenheit |-> Degrees(parsed).fahrenheit]

\* An entry of sensorData.capabilities.
SensorCapability(value, scale, detected) ==
    [value |-> value, scale |-> scale, detected |-> detected]

\* sensorData.capabilities[key] = entry
Assign(capabilities, key, entry) ==
    [k \in DOMAIN capabilities \cup {key} |-> IF k = key THEN entry ELSE capabilities[k]]

\* One pass of the sensor read's loop over a capability state.
SensorStep(capabilities, capString) ==
    LET parsed == Decode(capString)
        cap == parsed.value
    IN  IF parsed.throw THEN capabilities
        ELSE IF cap.namespace = "Alexa.TemperatureSensor" /\ cap.name = "temperature"
        THEN Assign(capabilities, "temperature",
                    SensorCapability(JsNumber(cap.value.num), cap.value.text, FALSE))
        ELSE IF cap.namespace = "Alexa.LightSensor" /\ cap.name = "illuminance"
        THEN Assign(capabilities, "illuminance", SensorCapability(cap.value, "", FALSE))
        ELSE IF cap.namespace = "Alexa.MotionSensor" /\ cap.name = "detectionState"
        THEN Assign(capabilities, "motion",
                    SensorCapability(JsNull, "", cap.value = JsString("DETECTED")))
        ELSE capabilities

RECURSIVE SensorCapabilitiesOf(_, _)
SensorCapabilitiesOf(capabilityStates, capabilities) ==
    IF Len(capabilityStates) = 0 THEN capabilities
    ELSE SensorCapabilitiesOf(Tail(capabilityStates),
                              SensorStep(capabilities, Head(capabilityStates)))

NoCapabilities == [k \in {} |-> SensorCapability(JsNull, "", FALSE)]

SensorData(deviceState) ==
    [entityId |-> deviceState.entityId,
     capabilities |-> SensorCapabilitiesOf(deviceState.capabilityStates, NoCapabilities)]

HasCapabilities(sensorData) == DOMAIN sensorData.capabilities # {}

\* GET /api/sensors/all, from the state response on: the sensors list.
sensorsAll(deviceStates) ==
    SelectSeq([i \in 1..Len(deviceStates) |-> SensorData(deviceStates[i])], HasCapabilities)

\* GET /api/lights/:id/state, from the device state on. getLightState hands
\* over the first device state; without one the handler answers 500.
lightStateReading(deviceStates) ==
    IF Len(deviceStates) = 0 THEN [status |-> 500]
    ELSE LET caps == ParseCoerced(deviceStates[1].capabilityStates)
             lightPower == Bucket(caps, {<<"Alexa.PowerController", "powerState">>})
             brightness == Bucket(caps, {<<"Alexa.BrightnessController", "brightness">>})
             colorTemp == Bucket(caps, {<<"Alexa.ColorTemperatureController",
                                         "colorTemperatureInKelvin">>})
             colorProps == Bucket(caps, {<<"Alexa.ColorPropertiesController",
                                          "colorProperties">>})
         IN  [status |-> 200,
              on |-> lightPower.value = JsString("ON"),
              brightness |-> OrElse(brightness.value, JsNumber(0)),
              color |-> [mode |-> IF colorProps # NoCapability THEN "name"
                                  ELSE IF colorTemp # NoCapability THEN "tempK"
                                  ELSE "unknown",
                         value |-> IF colorProps # NoCapability
                                      /\ JsTruthy(JsString(colorProps.value.text))
                                   THEN JsString(colorProps.value.text)
                                   ELSE OrElse(colorTemp.value, JsString("unknown"))],
              colorTempK |-> colorTemp.value]

\* The first power state among the capability states that parse.
FirstPower(caps) ==
    LET hits == {i \in 1..Len(caps) :
                    /\ caps[i].wire = "object"
                    /\ caps[i].obj.namespace = "Alexa.PowerController"
                    /\ caps[i].obj.name = "powerState"}
    IN  IF hits = {} THEN NoCapability
        ELSE caps[CHOOSE i \in hits : \A j \in hits : i <= j].obj

\* isAnyLightOn, from the state response on: true, false or null.
lightCheck(deviceStates) ==
    IF Len(deviceStates) = 0 THEN JsNull
    ELSE LET powerCap == FirstPower(ParseCoerced(deviceStates[1].capabilityStates))
         IN  IF powerCap = NoCapability THEN JsNull
             ELSE JsBoolean(powerCap.value = JsString("ON"))

Normalizers == {"bedroom", "sensors", "lightState", "nightGate"}

NormIdle ==
    /\ stateResponse = <<>>
    /\ normalizer = "none"
    /\ normalized = [status |-> 0]

NormInit ==
    /\ stateResponse \in StateResponses
    /\ normalizer = "none"
    /\ normalized = [status |-> 0]

Normalize(by, reading) ==
    /\ normalizer' = by
    /\ normalized' = reading
    /\ UNCHANGED <<stateResponse, cacheVars, idVars, lightVars, bedroomVars,
                   volumeVars, announceVars, traceVars, raceVars>>

NormalizeBedroom ==
    /\ normalizer = "none"
    /\ Normalize("bedroom", bedroomReading(stateResponse))

NormalizeSensors ==
    /\ normalizer = "none"
    /\ Normalize("sensors", [sensors |-> sensorsAll(stateResponse)])

NormalizeLightState ==
    /\ normalizer = "none"
    /\ Normalize("lightState", lightStateReading(stateResponse))

NormalizeNightGate ==
    /\ normalizer = "none"
    /\ Normalize("nightGate", [lightOn |-> lightCheck(stateResponse)])

(***************************************************************************)
(* Volume control (api/v1/volume.ts)                                       *)
(*                                                                         *)
(* POST /api/volume/set and /api/volume/adjust read the volume list, pick  *)
(* a device from it and then write to that device. The handler is followed *)
(* across its two upstream requests: vcalls holds them in the order they   *)
(* were issued.                                                            *)
(***************************************************************************)

MaxVolumes == 2

VolumeDevices == {"a", "b", "c"}

SpeakerVolumes == {0, 55, 100}

\* An element of the upstream's volumes list, of device d.
DeviceVolume(d, speakerVolume) ==
    [dev |-> d, deviceType |-> DeviceTypeOf(d), dsn |-> SerialOf(d),
     speakerVolume |-> speakerVolume]

VolumeLists ==
    DistinctLists({DeviceVolume(d, v) : d \in VolumeDevices, v \in SpeakerVolumes},
                  MaxVolumes)

\* The device a request names: none, a device by both its fields, or by
\* its device type or its serial number alone.
NoTarget == [deviceType |-> Undefined, dsn |-> Undefined]
Targets ==
    {NoTarget}
        \cup {[deviceType |-> DeviceTypeOf(d), dsn |-> SerialOf(d)] : d \in {"a", "b"}}
        \cup {[deviceType |-> DeviceTypeOf("b"), dsn |-> Undefined],
              [deviceType |-> Undefined, dsn |-> SerialOf("b")]}

VolumeBodies == {JsNumber(0), JsNumber(40), JsNumber(100), JsNumber(101), JsUndefined}
AmountBodies == {JsNumber(0 - 15), JsNumber(100), JsNumber(0 - 101), JsUndefined}

\* An upstream request of the volume handlers.
VolumeCall(api, deviceType, dsn, amount, volume) ==
    [api |-> api, deviceType |-> deviceType, dsn |-> dsn, amount |-> amount,
     volume |-> volume]

VolumesGet == VolumeCall("allDeviceVolumes.GET", Undefined, Undefined, 0, 0)

\* volume === undefined || volume < 0 || volume > 100
InvalidVolume(volume) == volume.type = "undefined" \/ volume.num < 0 \/ volume.num > 100

\* amount === undefined || amount < -100 || amount > 100
InvalidAmount(amount) == amount.type = "undefined" \/ amount.num < 0 - 100 \/ amount.num > 100

\* The answer to the volume-list read: its status, and the volumes of a 2xx
\* body that carries them.
VolumesResponse(ok, hasVolumes, list) ==
    [ok |-> ok, hasVolumes |-> ok /\ hasVolumes,
     volumes |-> IF ok /\ hasVolumes THEN list ELSE <<>>]

NoVolumesData == [ok |-> FALSE, hasVolumes |-> FALSE, volumes |-> <<>>]

targetDevice_FirstOnMiss(list, deviceType, dsn) ==
    IF Truthy(deviceType) /\ Truthy(dsn)
    THEN LET hits == {i \in 1..Len(list) :
                         list[i].deviceType = deviceType /\ list[i].dsn = dsn}
         IN  IF hits = {} THEN Return(list[1])
             ELSE Return(list[CHOOSE i \in hits : \A j \in hits : i <= j])
    ELSE Return(list[1])

\* Find target device or use first available.
targetDevice(list, deviceType, dsn) ==
    IF Truthy(deviceType) /\ Truthy(dsn)
    THEN LET hits == {i \in 1..Len(list) :
                         list[i].deviceType = deviceType /\ list[i].dsn = dsn}
         IN  IF hits = {} THEN Throw("Specified device not found")
             ELSE Return(list[CHOOSE i \in hits : \A j \in hits : i <= j])
    ELSE Return(list[1])

amountToReach_Reversed(volume, currentVolume) == currentVolume - volume

\* const amount = volume - currentVolume
amountToReach(volume, currentVolume) == volume - currentVolume

\* The write to the target: the amount, and the current volume read.
speakerVolumePut(target, amount) ==
    VolumeCall("speakerVolume.PUT", target.deviceType, target.dsn, amount,
               target.speakerVolume)

VolumeReply(status, error) == [status |-> status, error |-> error]

NoVolumeReq == [handler |-> "none"]

VolumeIdle ==
    /\ volumes = <<>>
    /\ vreq = NoVolumeReq
    /\ vpc = "idle"
    /\ volumesData = NoVolumesData
    /\ vcalls = <<>>
    /\ vres = VolumeReply(0, "")

VolumeInit ==
    /\ volumes \in VolumeLists
    /\ vreq = NoVolumeReq
    /\ vpc = "idle"
    /\ volumesData = NoVolumesData
    /\ vcalls = <<>>
    /\ vres = VolumeReply(0, "")

\* A handler returns a response.
VolumeDone(reply) ==
    /\ vpc' = "done"
    /\ vres' = reply

\* The part of both handlers before the volume-list read is issued.
VolumeRequest(req, creds, invalid, error) ==
    /\ vreq' = req
    /\ IF ~creds
       THEN /\ VolumeDone(VolumeReply(500, "Missing UBID_MAIN or AT_MAIN in environment."))
            /\ UNCHANGED vcalls
       ELSE IF invalid
       THEN /\ VolumeDone(VolumeReply(400, error))
            /\ UNCHANGED vcalls
       ELSE /\ vpc' = "reading"
            /\ vcalls' = Append(vcalls, VolumesGet)
            /\ UNCHANGED vres
    /\ UNCHANGED <<volumes, volumesData, cacheVars, idVars, lightVars, bedroomVars,
                   normVars, announceVars, traceVars, raceVars>>

\* POST /api/volume/set
VolumeSet(target, volume, creds) ==
    /\ vpc = "idle"
    /\ VolumeRequest([handler |-> "set", deviceType |-> target.deviceType,
                      dsn |-> target.dsn, volume |-> volume, amount |-> JsUndefined],
                     creds, InvalidVolume(volume), "Volume must be between 0 and 100")

\* POST /api/volume/adjust
VolumeAdjust(target, amount, creds) ==
    /\ vpc = "idle"
    /\ VolumeRequest([handler |-> "adjust", deviceType |-> target.deviceType,
                      dsn |-> target.dsn, volume |-> JsUndefined, amount |-> amount],
                     creds, InvalidAmount(amount), "Amount must be between -100 and 100")

\* The volume-list read completes: the handler answers an error, or picks
\* the target and issues the write.
VolumesRead(ok, hasVolumes) ==
    LET data == VolumesResponse(ok, hasVolumes, volumes)
        target == targetDevice(data.volumes, vreq.deviceType, vreq.dsn)
        amount == IF vreq.handler = "set"
                  THEN amountToReach(vreq.volume.num, target.value.speakerVolume)
                  ELSE vreq.amount.num
    IN  /\ vpc = "reading"
        /\ volumesData' = data
        /\ IF ~data.ok
           THEN /\ VolumeDone(VolumeReply(500, "Failed to get current volumes"))
                /\ UNCHANGED vcalls
           ELSE IF ~data.hasVolumes \/ Len(data.volumes) = 0
           THEN /\ VolumeDone(VolumeReply(404, "No devices found"))
                /\ UNCHANGED vcalls
           ELSE IF target.throw
           THEN /\ VolumeDone(VolumeReply(404, "Specified device not found"))
                /\ UNCHANGED vcalls
           ELSE /\ vpc' = "writing"
                /\ vcalls' = Append(vcalls, speakerVolumePut(target.value, amount))
                /\ UNCHANGED vres
        /\ UNCHANGED <<volumes, vreq, cacheVars, idVars, lightVars, bedroomVars,
                       normVars, announceVars, traceVars, raceVars>>

\* The write completes: a 2xx is answered 200, a failure with the status of
\* the upstream, 502 here.
VolumeWritten(ok) ==
    /\ vpc = "writing"
    /\ VolumeDone(IF ok THEN VolumeReply(200, "")
                  ELSE VolumeReply(502, IF vreq.handler = "set" THEN "Set volume failed"
                                        ELSE "Adjust volume failed"))
    /\ UNCHANGED <<volumes, vreq, volumesData, vcalls, cacheVars, idVars, lightVars,
                   bedroomVars, normVars, announceVars, traceVars, raceVars>>

(***************************************************************************)
(* Two set-volume requests at once                                         *)
(*                                                                         *)
(* POST /api/volume/set keeps nothing between its read and its write: two  *)
(* requests are followed step by step, each through its own read of the    *)
(* volume list and its own write. The upstream adds the amount of a write  *)
(* to the level the device has when the write arrives, within 0 and 100.   *)
(***************************************************************************)

Setters == {"s1", "s2"}

NoSetter == [deviceType |-> Undefined, dsn |-> Undefined, volume |-> JsUndefined]
NoEntryPicked == [dev |-> "none"]

RaceIdle ==
    /\ spc = [s \in Setters |-> "idle"]
    /\ sreq = [s \in Setters |-> NoSetter]
    /\ starget = [s \in Setters |-> NoEntryPicked]
    /\ sres = [s \in Setters |-> VolumeReply(0, "")]

\* The devices and the volumes the racing requests ask for.
RaceTargets == {NoTarget, [deviceType |-> DeviceTypeOf("a"), dsn |-> SerialOf("a")]}
RaceVolumes == {JsNumber(40), JsNumber(100), JsUndefined}

Clamp(v) == IF v < 0 THEN 0 ELSE IF v > 100 THEN 100 ELSE v

\* The upstream's volumes after a write has been applied.
Applied(list, call) ==
    [i \in 1..Len(list) |->
        IF list[i].deviceType = call.deviceType /\ list[i].dsn = call.dsn
        THEN [list[i] EXCEPT !.speakerVolume = Clamp(@ + call.amount)]
        ELSE list[i]]

RaceInit ==
    /\ volumes \in VolumeLists
    /\ vreq = NoVolumeReq
    /\ vpc = "idle"
    /\ volumesData = NoVolumesData
    /\ vcalls = <<>>
    /\ vres = VolumeReply(0, "")
    /\ RaceIdle

\* The request s returns a response.
RaceDone(s, reply) ==
    /\ spc' = [spc EXCEPT ![s] = "done"]
    /\ sres' = [sres EXCEPT ![s] = reply]

\* POST /api/volume/set, request s, up to the volume-list read.
RaceSet(s, target, volume, creds) ==
    /\ spc[s] = "idle"
    /\ sreq' = [sreq EXCEPT ![s] = [deviceType |-> target.deviceType, dsn |-> target.dsn,
                                    volume |-> volume]]
    /\ IF ~creds
       THEN RaceDone(s, VolumeReply(500, "Missing UBID_MAIN or AT_MAIN in environment."))
       ELSE IF InvalidVolume(volume)
       THEN RaceDone(s, VolumeReply(400, "Volume must be between 0 and 100"))
       ELSE /\ spc' = [spc EXCEPT ![s] = "reading"]
            /\ UNCHANGED sres
    /\ UNCHANGED <<starget, cacheVars, idVars, lightVars, bedroomVars, normVars, volumeVars,
                   announceVars, traceVars>>

\* The read of request s is answered with the volumes the upstream holds
\* at that moment; the request picks its target from them.
RaceRead(s, ok, hasVolumes) ==
    LET data == VolumesResponse(ok, hasVolumes, volumes)
        target == targetDevice(data.volumes, sreq[s].deviceType, sreq[s].dsn)
    IN  /\ spc[s] = "reading"
        /\ IF ~data.ok
           THEN /\ RaceDone(s, VolumeReply(500, "Failed to get current volumes"))
                /\ UNCHANGED starget
           ELSE IF ~data.hasVolumes \/ Len(data.volumes) = 0
           THEN /\ RaceDone(s, VolumeReply(404, "No devices found"))
                /\ UNCHANGED starget
           ELSE IF target.throw
           THEN /\ RaceDone(s, VolumeReply(404, "Specified device not found"))
                /\ UNCHANGED starget
           ELSE /\ spc' = [spc EXCEPT ![s] = "writing"]
                /\ starget' = [starget EXCEPT ![s] = target.value]
                /\ UNCHANGED sres
        /\ UNCHANGED <<sreq, cacheVars, idVars, lightVars, bedroomVars, normVars, volumeVars,
                       announceVars, traceVars>>

\* The write of request s, made of the entry it read, arrives upstream.
RaceWrite(s, ok) ==
    LET amount == amountToReach(sreq[s].volume.num, starget[s].speakerVolume)
        call == speakerVolumePut(starget[s], amount)
    IN  /\ spc[s] = "writing"
        /\ volumes' = IF ok THEN Applied(volumes, call) ELSE volumes
        /\ RaceDone(s, IF ok THEN VolumeReply(200, "")
                       ELSE VolumeReply(502, "Set volume failed"))
        /\ UNCHANGED <<sreq, starget, vreq, vpc, volumesData, vcalls, vres, cacheVars, idVars,
                       lightVars, bedroomVars, normVars, announceVars, traceVars>>

(***************************************************************************)
(* Announcements (api/v1/announce.ts) and the night gate                   *)
(*                                                                         *)
(* The handler validates the request, at night asks isAnyLightOn           *)
(* (utils/alexa.ts), looks the account up and posts the announcement. It   *)
(* is followed across its upstream requests: acalls holds them in the      *)
(* order they were issued.                                                 *)
(***************************************************************************)

\* The hours around the two ends of the day, and one deep in the night.
Hours == {3, 9, 10, 21, 22}

\* const isDay = hourTz >= 10 && hourTz < 22
IsDay(hour) == hour >= 10 /\ hour < 22

\* What an announcement runs against: the credentials, the discovery, the
\* state endpoint (whether it answers 2xx, and whether with JSON-encoded
\* capability states or with objects), the account lookup and the
\* announcement endpoint.
AnnounceEnvs ==
    [creds : BOOLEAN, disc : BOOLEAN, stateOk : BOOLEAN, encoded : BOOLEAN,
     accountOk : BOOLEAN, postOk : BOOLEAN]

\* A request body: whether it is JSON, and the lengths of the trimmed name
\* and message.
AnnounceBody(json, name, message) == [json |-> json, name |-> name, message |-> message]

AnnounceBodies ==
    {AnnounceBody(TRUE, 5, 10), AnnounceBody(FALSE, 0, 0), AnnounceBody(TRUE, 0, 10),
     AnnounceBody(TRUE, 41, 10), AnnounceBody(TRUE, 40, 146)}

\* The favorites an announcement runs against: lights, and a plug.
AnnounceFavLists ==
    DistinctLists({Favorite(d, "light") : d \in {"a", "b"}} \cup {Favorite("c", "plug")},
                  MaxFavs)

PowerStates == [{"a", "b"} -> {"ON", "OFF"}]

\* An upstream request of the handler and the entity it is about.
AnnounceCall(api, id) == [api |-> api, id |-> id]

AccountsGet == AnnounceCall("accounts.GET", <<>>)
AnnouncementsPost == AnnounceCall("announcements.POST", <<>>)

\* The body of a 2xx answer to the state request of isAnyLightOn for the
\* light d.
PowerStateResponse(d, encoded) ==
    LET cap == Capability("Alexa.PowerController", "powerState", JsString(power[d]))
    IN  <<DeviceState(EntityIdOf(d),
                      <<IF encoded THEN StringEntry(JsonStringify(cap)) ELSE ObjectEntry(cap)>>)>>

\* if (lightOn === false) return 403
suppressed_Never(on) == FALSE

suppressed(on) == on = JsBoolean(FALSE)

AnnounceReply(status, error) == [status |-> status, error |-> error]

\* What the caller of the handler gets when an exception leaves it: the
\* framework's plain 500, not a response the handler made.
Uncaught == AnnounceReply(500, "Internal Server Error")

NoAnnounceReq == [body |-> AnnounceBody(FALSE, 0, 0)]

AnnounceIdle ==
    /\ hourTz = 0
    /\ power = [d \in {"a", "b"} |-> "OFF"]
    /\ areq = NoAnnounceReq
    /\ apc = "idle"
    /\ lightOn = JsUndefined
    /\ acalls = <<>>
    /\ ares = AnnounceReply(0, "")

AnnounceInit ==
    /\ hourTz \in Hours
    /\ power \in PowerStates
    /\ favorites \in AnnounceFavLists
    /\ endpoints = <<>>
    /\ lreq = NoReq
    /\ lres = NoRes
    /\ calls = <<>>
    /\ areq = NoAnnounceReq
    /\ apc = "idle"
    /\ lightOn = JsUndefined
    /\ acalls = <<>>
    /\ ares = AnnounceReply(0, "")

\* The handler returns a response.
AnnounceDone(reply) ==
    /\ apc' = "done"
    /\ ares' = reply
    /\ UNCHANGED acalls

\* The handler goes on to the account lookup.
Lookup ==
    /\ apc' = "account"
    /\ acalls' = Append(acalls, AccountsGet)
    /\ UNCHANGED ares

\* POST /api/announce up to its first upstream request. At night that is
\* the state request of isAnyLightOn, unless getPrimaryLight throws:
\* isAnyLightOn then returns null and the handler goes on.
Announce(body, env) ==
    LET primaryLight == getPrimaryLight(env)
    IN  /\ apc = "idle"
        /\ areq' = [body |-> body, env |-> env]
        /\ IF ~env.creds
           THEN /\ AnnounceDone(AnnounceReply(500, "Missing UBID_MAIN or AT_MAIN in environment."))
                /\ UNCHANGED lightOn
           ELSE IF ~body.json
           THEN /\ AnnounceDone(AnnounceReply(400, "Invalid JSON body."))
                /\ UNCHANGED lightOn
           ELSE IF body.name = 0 \/ body.message = 0
           THEN /\ AnnounceDone(AnnounceReply(400, "Both name and message are required."))
                /\ UNCHANGED lightOn
           ELSE IF body.name > 40
           THEN /\ AnnounceDone(AnnounceReply(400, "Name must be 40 characters or fewer."))
                /\ UNCHANGED lightOn
           ELSE IF body.message > 145
           THEN /\ AnnounceDone(AnnounceReply(400, "Message must be 145 characters or fewer."))
                /\ UNCHANGED lightOn
           ELSE IF IsDay(hourTz)
           THEN /\ Lookup
                /\ UNCHANGED lightOn
           ELSE IF primaryLight.throw
           THEN /\ lightOn' = JsNull
                /\ Lookup
           ELSE /\ apc' = "gate"
                /\ acalls' = Append(acalls,
                                    AnnounceCall("phoenix.POST",
                                                 extractEntityId(AsDevice(primaryLight.value))))
                /\ UNCHANGED <<lightOn, ares>>
        /\ UNCHANGED <<hourTz, power, cacheVars, idVars, lightVars, bedroomVars, normVars,
                       volumeVars, traceVars, raceVars>>

\* The state request of isAnyLightOn completes, and the gate decides.
LightRead ==
    LET primaryLight == getPrimaryLight(areq.env)
        on == IF ~areq.env.stateOk THEN JsNull
              ELSE lightCheck(PowerStateResponse(primaryLight.value.dev, areq.env.encoded))
    IN  /\ apc = "gate"
        /\ lightOn' = on
        /\ IF suppressed(on)
           THEN AnnounceDone(AnnounceReply(403,
                    "All lights are off - announcement suppressed for night time."))
           ELSE Lookup
        /\ UNCHANGED <<hourTz, power, areq, cacheVars, idVars, lightVars, bedroomVars,
                       normVars, volumeVars, traceVars, raceVars>>

\* The account lookup completes: the announcement is posted, or the
\* exception of getAccountId, awaited outside any try, leaves the handler.
AccountInfo ==
    /\ apc = "account"
    /\ IF areq.env.accountOk
       THEN /\ apc' = "post"
            /\ acalls' = Append(acalls, AnnouncementsPost)
            /\ UNCHANGED ares
       ELSE AnnounceDone(Uncaught)
    /\ UNCHANGED <<hourTz, power, areq, lightOn, cacheVars, idVars, lightVars, bedroomVars,
                   normVars, volumeVars, traceVars, raceVars>>

\* The announcement endpoint answers: a 2xx is answered 200, a failure
\* with the status of the upstream, 502 here.
Announced ==
    /\ apc = "post"
    /\ AnnounceDone(IF areq.env.postOk THEN AnnounceReply(200, "")
                    ELSE AnnounceReply(502, "Alexa API error"))
    /\ UNCHANGED <<hourTz, power, areq, lightOn, cacheVars, idVars, lightVars, bedroomVars,
                   normVars, volumeVars, traceVars, raceVars>>

(***************************************************************************)
(* Specifications                                                          *)
(***************************************************************************)

\* No request has been traced.
NoBedroomReq == [handler |-> "none"]

TraceIdle ==
    /\ lookups = <<>>
    /\ breq = NoBedroomReq

\* The normalisers and the volume and announcement handlers at rest.
OthersIdle == NormIdle /\ VolumeIdle /\ AnnounceIdle /\ TraceIdle /\ RaceIdle

\* The identifier helpers applied to every input.
IdSpecInit == CacheIdle /\ IdInit /\ LightIdle /\ BedroomIdle /\ OthersIdle

IdNext == Extract \/ Build

IdSpec == IdSpecInit /\ [][IdNext]_vars

\* The light and do-not-disturb requests against every discovery result.
LightSpecInit == CacheIdle /\ IdIdle /\ LightInit /\ BedroomIdle /\ OthersIdle

DndIds == {Undefined, SerialOf("a")}

LightNext ==
    \/ \E env \in Envs : ListLights(env)
    \/ \E id \in UrlIds, env \in Envs, hasState \in BOOLEAN : GetState(id, env, hasState)
    \/ \E id \in UrlIds, on \in OnBodies, env \in Envs : PostPower(id, on, env)
    \/ \E id \in UrlIds, level \in LevelBodies, env \in Envs : PostBrightness(id, level, env)
    \/ \E id \in UrlIds, body \in ColorBodies, env \in Envs :
          PostColor(id, body.mode, body.value, env)
    \/ \E id \in UrlIds, op \in Operations, colorOk \in BOOLEAN, env \in Envs :
          PostControl(id, op, JsNumber(100), JsString("red"), colorOk, env)
    \/ \E id \in ToolIds, on \in BOOLEAN, apiBase \in BOOLEAN, env \in Envs :
          SetLightPower(id, on, apiBase, env)
    \/ \E id \in ToolIds, apiBase \in BOOLEAN, env \in Envs :
          SetLightBrightness(id, 100, apiBase, env)
    \/ \E id \in ToolIds, mode \in {"name", "tempK"}, apiBase \in BOOLEAN, env \in Envs :
          SetLightColor(id, mode, JsString("red"), apiBase, env)
    \/ \E serial \in DndIds, env \in Envs : PutDnd(serial, DeviceTypeOf("a"), env)
    \/ \E serial \in DndIds, apiBase \in BOOLEAN, env \in Envs :
          SetDndStatus(serial, DeviceTypeOf("a"), apiBase, env)
    \/ \E env \in Envs : GetLightApplianceId(env)
    \/ \E env \in Envs : GetEchoDeviceEntityId(env)

LightSpec == LightSpecInit /\ [][LightNext]_vars

\* The bedroom read against every state response.
BedroomSpecInit == CacheIdle /\ IdIdle /\ BedroomInit /\ OthersIdle

BedroomNext ==
    \/ \E env \in Envs, firstOk \in {1, 4}, devicesResponse \in DevicesResponses :
          Bedroom(env, firstOk, devicesResponse)
    \/ EdgeExpire

BedroomSpec == BedroomSpecInit /\ [][BedroomNext]_vars

\* The discovery sweep of the bedroom read against every endpoint graph and
\* every outcome of its discovery queries.
SweepSpecInit == CacheIdle /\ IdIdle /\ SweepInit /\ OthersIdle

SweepNext ==
    \/ \E env \in Envs, firstOk \in 1..4, devicesResponse \in DevicesResponses :
          Bedroom(env, firstOk, devicesResponse)
    \/ EdgeExpire

SweepSpec == SweepSpecInit /\ [][SweepNext]_vars

\* The discovery cache under concurrent queries.
Init == CacheInit /\ IdIdle /\ LightIdle /\ BedroomIdle /\ OthersIdle

Next ==
    \/ Tick
    \/ \E c \in Callers, key \in queried : Query(c, key)
    \/ \E c \in Callers : Respond(c)
    \/ \E c \in Callers : Complete(c)

Spec == Init /\ [][Next]_vars

\* The normalisers applied to every state response.
NormSpecInit == CacheIdle /\ IdIdle /\ LightIdle /\ BedroomIdle /\ NormInit /\ VolumeIdle
                    /\ AnnounceIdle /\ TraceIdle /\ RaceIdle

NormNext ==
    \/ NormalizeBedroom
    \/ NormalizeSensors
    \/ NormalizeLightState
    \/ NormalizeNightGate

NormSpec == NormSpecInit /\ [][NormNext]_vars

\* One volume request against every volume list.
VolumeSpecInit == CacheIdle /\ IdIdle /\ LightIdle /\ BedroomIdle /\ NormIdle /\ VolumeInit
                      /\ AnnounceIdle /\ TraceIdle /\ RaceIdle

VolumeNext ==
    \/ \E target \in Targets, volume \in VolumeBodies, creds \in BOOLEAN :
          VolumeSet(target, volume, creds)
    \/ \E target \in Targets, amount \in AmountBodies, creds \in BOOLEAN :
          VolumeAdjust(target, amount, creds)
    \/ \E ok \in BOOLEAN, hasVolumes \in BOOLEAN : VolumesRead(ok, hasVolumes)
    \/ \E ok \in BOOLEAN : VolumeWritten(ok)

VolumeSpec == VolumeSpecInit /\ [][VolumeNext]_vars

\* Two set-volume requests at once against every volume list.
RaceSpecInit == CacheIdle /\ IdIdle /\ LightIdle /\ BedroomIdle /\ NormIdle /\ RaceInit
                    /\ AnnounceIdle /\ TraceIdle

RaceNext ==
    \/ \E s \in Setters, target \in RaceTargets, volume \in RaceVolumes, creds \in BOOLEAN :
          RaceSet(s, target, volume, creds)
    \/ \E s \in Setters, ok \in BOOLEAN, hasVolumes \in BOOLEAN : RaceRead(s, ok, hasVolumes)
    \/ \E s \in Setters, ok \in BOOLEAN : RaceWrite(s, ok)

RaceSpec == RaceSpecInit /\ [][RaceNext]_vars

\* One announcement at every hour against every light state.
AnnounceSpecInit == CacheIdle /\ IdIdle /\ BedroomIdle /\ NormIdle /\ VolumeIdle
                        /\ AnnounceInit /\ TraceIdle /\ RaceIdle

AnnounceNext ==
    \/ \E body \in AnnounceBodies, env \in AnnounceEnvs : Announce(body, env)
    \/ LightRead
    \/ AccountInfo
    \/ Announced

AnnounceSpec == AnnounceSpecInit /\ [][AnnounceNext]_vars

(***************************************************************************)
(* Claims about the discovery cache                                        *)
(***************************************************************************)

\* A step in which some caller starts a cached discovery query.
QueryStep == ncall' = ncall + 1

\* A step in which caller c resumes with the upstream reply and returns.
CompleteStep(c) == pc[c] = "responded" /\ pc'[c] = "idle"

\* The value a query makes of a 2xx reply r.
Fetched(r) == [asOf |-> r.asOf, items |-> IF r.payload = "valid" THEN "data" ELSE "empty"]

\* C1: a query made while its key has an entry younger than 300 s returns the
\* stored value, puts no request in flight and leaves the cache alone; a query
\* made when the key was never set or the entry is 300 s old or older (exactly
\* 300 s included) returns nothing from the cache and puts an upstream request
\* in flight, and a reply it accepts replaces the entry with the fetched value
\* stamped with the time of the store.
C1_CacheTtl ==
    [][
        /\ QueryStep =>
            LET key == last'.key
            IN  IF cache[key].set /\ now - cache[key].timestamp < 300 * 1000
                THEN /\ last'.op = "hit"
                     /\ last'.value = cache[key].value
                     /\ pc' = pc
                     /\ cache' = cache
                ELSE /\ last'.op = "miss"
                     /\ \E c \in Callers :
                           /\ pc[c] = "idle" /\ pc'[c] = "fetching" /\ ckey'[c] = key
                           /\ \A d \in Callers \ {c} : pc'[d] = pc[d]
        /\ \A c \in Callers :
              (CompleteStep(c) /\ resp[c].ok /\ resp[c].payload = "valid") =>
                  cache'[ckey[c]] =
                      [set |-> TRUE, value |-> Fetched(resp[c]), timestamp |-> now]
      ]_vars

\* C1 witness: a query has just consulted an entry aged exactly the TTL and
\* missed, putting a request in flight.
C1_Witness ==
    /\ last.op = "miss"
    /\ cache[last.key].set
    /\ now - cache[last.key].timestamp = 300 * 1000
    /\ \E c \in Callers : pc[c] = "fetching" /\ ckey[c] = last.key

\* C2: a caller that misses while another caller's fetch of the same key is
\* in flight issues its own fetch; and whenever a caller completes, the entry
\* of its key becomes exactly the pair (its own fetched value, the time of its
\* store) if it stores and is unchanged if it throws, and no other key's
\* entry changes: after two racing fetches the entry is whole and is the one
\* stored last.
C2_LastWriteWins ==
    [][
        /\ \A c \in Callers :
              CompleteStep(c) =>
                  /\ \A k \in Keys \ {ckey[c]} : cache'[k] = cache[k]
                  /\ last'.op \in {"store", "throw"}
                  /\ last'.op = "store" =>
                        cache'[ckey[c]] =
                            [set |-> TRUE, value |-> Fetched(resp[c]), timestamp |-> now]
                  /\ last'.op = "throw" => cache'[ckey[c]] = cache[ckey[c]]
        /\ \A c \in Callers, d \in Callers :
              (/\ QueryStep
               /\ pc[c] = "idle" /\ pc'[c] # "idle"
               /\ pc[d] \in {"fetching", "responded"}) =>
                  \* no single flight: c fetches even when d fetches the same key
                  pc'[c] = "fetching" /\ pc'[d] = pc[d] /\ ckey'[d] = ckey[d]
      ]_vars

\* C2 witness: two callers missed on the same key; one has just stored its
\* result while the reply to the other is still waiting to be stored over it.
C2_Witness ==
    \E c \in Callers, d \in Callers :
        /\ c # d
        /\ last.op = "store"
        /\ pc[c] = "idle"
        /\ pc[d] = "responded"
        /\ ckey[d] = last.key
        /\ resp[d].ok
        /\ cache[last.key].timestamp = now

(***************************************************************************)
(* Claims about identifier extraction and endpoint IDs                     *)
(***************************************************************************)

\* The string s with the first occurrence of the namespace prefix taken out
\* is r (s itself when the prefix does not occur).
IsWithoutFirstPrefix(s, r) ==
    LET At(i) == i + 1 <= Len(s) /\ s[i] = "amzn1.alexa." /\ s[i + 1] = "endpoint."
    IN  IF \E i \in 1..Len(s) : At(i)
        THEN \E i \in 1..Len(s) :
                /\ At(i)
                /\ \A j \in 1..(i - 1) : ~At(j)
                /\ r = [k \in 1..(Len(s) - 2) |-> IF k < i THEN s[k] ELSE s[k + 2]]
        ELSE r = s

\* A field is present when it is a non-empty string.
Present(field) == field # Undefined /\ field # <<>>

\* C5 (as stated): the extracted entity ID is the chrs entity ID if present;
\* else identifier.entityId if present; else the resource ID with the
\* namespace prefix stripped; else the serial number.
C5_AsStated ==
    idres.op = "extract" =>
        IF Present(dev.chrs) THEN idres.entityId = dev.chrs
        ELSE IF Present(dev.identifier) THEN idres.entityId = dev.identifier
        ELSE IF Present(dev.resourceId)
        THEN IsWithoutFirstPrefix(dev.resourceId, idres.entityId)
        ELSE idres.entityId = dev.serialNumber

\* C5: the extracted entity ID is the chrs entity ID if non-empty; else
\* identifier.entityId if non-empty; else, if the resource ID contains
\* "endpoint.", the resource ID with the first occurrence of
\* "amzn1.alexa.endpoint." removed; else the serial number if non-empty; else
\* the resource ID unchanged (undefined when there is none).
C5_Precedence ==
    idres.op = "extract" =>
        LET hasEndpoint ==
                /\ dev.resourceId # Undefined
                /\ \E i \in 1..Len(dev.resourceId) : dev.resourceId[i] = "endpoint."
        IN  /\ Present(dev.chrs) => idres.entityId = dev.chrs
            /\ (~Present(dev.chrs) /\ Present(dev.identifier)) =>
                   idres.entityId = dev.identifier
            /\ (~Present(dev.chrs) /\ ~Present(dev.identifier) /\ hasEndpoint) =>
                   IsWithoutFirstPrefix(dev.resourceId, idres.entityId)
            /\ (~Present(dev.chrs) /\ ~Present(dev.identifier) /\ ~hasEndpoint
                    /\ Present(dev.serialNumber)) =>
                   idres.entityId = dev.serialNumber
            /\ (~Present(dev.chrs) /\ ~Present(dev.identifier) /\ ~hasEndpoint
                    /\ ~Present(dev.serialNumber)) =>
                   idres.entityId = dev.resourceId

\* C5 witness: a record with neither entity-ID field, a prefixed resource ID
\* and a serial number has yielded the resource ID without its prefix.
C5_Witness ==
    /\ idres.op = "extract"
    /\ dev.chrs = Undefined
    /\ dev.identifier = Undefined
    /\ dev.resourceId = <<"amzn1.alexa.", "endpoint.", "a">>
    /\ dev.serialNumber = <<"b">>
    /\ idres.entityId = <<"a">>

\* C7: buildEndpointId(e) is e when e starts with the prefix and the prefix
\* followed by e otherwise; so it starts with the prefix, which was added at
\* most once; building again changes nothing; and the endpoint ID
\* getPrimaryLightIds hands to a power mutation starts with the prefix.
C7_BuildEndpointId ==
    /\ idres.op = "build" =>
          LET e == ent
              b == idres.endpointId
              prefixed == Len(e) >= 2 /\ e[1] = "amzn1.alexa." /\ e[2] = "endpoint."
          IN  /\ prefixed => b = e
              /\ ~prefixed => b = <<"amzn1.alexa.", "endpoint.">> \o e
              /\ Len(b) >= 2 /\ b[1] = "amzn1.alexa." /\ b[2] = "endpoint."
              /\ Len(b) <= Len(e) + 2
              /\ idres.again = b
    /\ (idres.op = "extract" /\ idres.ids.endpointId # TypeError) =>
          LET b == idres.ids.endpointId
          IN  Len(b) >= 2 /\ b[1] = "amzn1.alexa." /\ b[2] = "endpoint."

\* C7 witness: an entity ID that already carries the prefix came back as is.
C7_Witness ==
    /\ idres.op = "build"
    /\ ent = <<"amzn1.alexa.", "endpoint.", "a">>
    /\ idres.endpointId = ent
    /\ idres.again = ent

(***************************************************************************)
(* Claims about light requests                                             *)
(***************************************************************************)

\* The favorites a light request may pick: active, of type ENDPOINT, of
\* primary category LIGHT.
Eligible(i) ==
    /\ favorites[i].active
    /\ favorites[i].type = "ENDPOINT"
    /\ favorites[i].category = "LIGHT"

\* The first of them in provider order.
IsFirstLight(i) ==
    /\ i \in 1..Len(favorites)
    /\ Eligible(i)
    /\ \A j \in 1..(i - 1) : ~Eligible(j)

\* The power mutations among the upstream requests sent.
PowerMutations == {k \in 1..Len(calls) : calls[k].api = "nexus.POST"}

\* The state writes among them.
StateWrites == {k \in 1..Len(calls) : calls[k].api = "phoenix.PUT"}

\* The request could go all the way through.
AllUp == lreq.env.creds /\ lreq.env.disc /\ lreq.env.upOk

\* C3: a setLightPower call without an id sends its power mutation, if any,
\* to the endpoint of the first active ENDPOINT favorite of category LIGHT in
\* provider order, whatever precedes it in the list; it sends exactly one when
\* there is such a favorite and nothing fails, and none when there is none.
C3_FirstLight ==
    (lreq.handler = "setLightPower" /\ lreq.id = Undefined) =>
        /\ \A k \in PowerMutations :
              \E i \in 1..Len(favorites) :
                  /\ IsFirstLight(i)
                  /\ calls[k].id = <<"amzn1.alexa.", "endpoint.", favorites[i].dev>>
                  /\ lres.lightId = <<favorites[i].dev>>
        /\ ((\E i \in 1..Len(favorites) : Eligible(i)) /\ lreq.apiBase /\ AllUp) =>
              /\ Cardinality(PowerMutations) = 1
              /\ ~lres.isError
        /\ (~\E i \in 1..Len(favorites) : Eligible(i)) => PowerMutations = {}

\* C3 witness: of two lights, a call without an id switched the first.
C3_Witness ==
    /\ lreq.handler = "setLightPower"
    /\ lreq.id = Undefined
    /\ Len(favorites) = 2
    /\ Eligible(1) /\ Eligible(2)
    /\ Len(calls) = 1
    /\ calls[1].api = "nexus.POST"
    /\ calls[1].id = <<"amzn1.alexa.", "endpoint.", favorites[1].dev>>
    /\ ~lres.isError

\* The ids the light list returns.
ListedIds == {<<favorites[i].dev>> : i \in {j \in 1..Len(favorites) : Eligible(j)}}

\* C4 (as stated): a power request naming a listed light id X, as a tool
\* argument or in the URL, sends its power mutation to the endpoint ID
\* derived from X.
C4_ExplicitIdSelects ==
    (lreq.handler \in {"setLightPower", "postPower"} /\ lreq.id \in ListedIds) =>
        \A k \in PowerMutations :
            calls[k].id = <<"amzn1.alexa.", "endpoint.">> \o lreq.id

\* The light a brightness or colour request is for: the one named, or the
\* first listed.
IsTarget(i) ==
    /\ i \in 1..Len(favorites)
    /\ IF lreq.id # Undefined THEN Eligible(i) /\ <<favorites[i].dev>> = lreq.id
       ELSE IsFirstLight(i)

\* C6 (as stated): every brightness or colour write for a light, named by an
\* id of the light list or auto-detected, is keyed by the appliance ID of that
\* light.
C6_WritesKeyedByApplianceId ==
    (/\ lreq.handler \in {"postBrightness", "postColor", "setLightBrightness", "setLightColor"}
     /\ (lreq.id = Undefined \/ lreq.id \in ListedIds)) =>
        \A k \in StateWrites :
            \E i \in 1..Len(favorites), e \in 1..Len(endpoints) :
                /\ IsTarget(i)
                /\ endpoints[e].dev = favorites[i].dev
                /\ endpoints[e].applianceId # Undefined
                /\ calls[k].id = endpoints[e].applianceId

\* C8 (as stated): when discovery succeeds and lists no device of category
\* LIGHT, a well-formed POST /api/lights/:id/power answers 404.
C8_NoLightIs404 ==
    (/\ lreq.handler = "postPower"
     /\ lreq.on.type = "boolean"
     /\ lreq.env.disc
     /\ \A i \in 1..Len(favorites) : favorites[i].category # "LIGHT") =>
        lres.status = 404

\* C9 (as stated): when the device a resolution selects lacks the identifier
\* asked for, the resolution fails, with a failure other than the one for
\* "no such device"; and no upstream request carries an undefined or empty
\* identifier.
C9_MissingIdentifierFails ==
    LET ofCategory(c) == {e \in 1..Len(endpoints) : endpoints[e].category = c}
        first(c) == CHOOSE e \in ofCategory(c) : \A f \in ofCategory(c) : e <= f
        light == endpoints[first("LIGHT")]
        echo == endpoints[first("ALEXA_VOICE_ENABLED")]
    IN  /\ (/\ lreq.handler = "getLightApplianceId" /\ lreq.env.disc
            /\ ofCategory("LIGHT") # {} /\ light.applianceId = Undefined) =>
               lres.throw /\ lres.msg # "No light device found"
        /\ (/\ lreq.handler = "getEchoDeviceEntityId" /\ lreq.env.disc
            /\ ofCategory("ALEXA_VOICE_ENABLED") # {} /\ echo.chrs = Undefined) =>
               lres.throw /\ lres.msg # "No Echo device found for sensors"
        /\ (/\ lreq.handler = "setDndStatus" /\ lreq.serial = Undefined
            /\ lreq.apiBase /\ lreq.env.disc
            /\ ofCategory("ALEXA_VOICE_ENABLED") # {}
            /\ (echo.serial = Undefined \/ echo.deviceType = Undefined)) =>
               lres.isError /\ lres.text # "No Echo device found for DND control"
        /\ \A k \in 1..Len(calls) : calls[k].id # Undefined /\ calls[k].id # <<>>

(***************************************************************************)
(* Claims about the bedroom read                                           *)
(***************************************************************************)

\* A string entry whose text is not a JSON object.
Malformed(entry) ==
    /\ entry.wire = "string"
    /\ ~(Len(entry.text) = 5 /\ entry.text[1] = "{" /\ entry.text[5] = "}")

\* The device states without their malformed entries.
WithoutMalformed(deviceStates) ==
    [i \in 1..Len(deviceStates) |->
        DeviceState(deviceStates[i].entityId,
                    SelectSeq(deviceStates[i].capabilityStates, LAMBDA e : ~Malformed(e)))]

\* C10 (as stated): a bedroom read of a state response with exactly one
\* malformed string entry and at least one valid entry returns a non-empty
\* result that is the result for the same response without the malformed
\* entry: the readings of the valid entries, the malformed one omitted.
C10_MalformedEntryOmitted ==
    LET entries == Flatten(rawData.deviceStates)
        bad == {i \in 1..Len(entries) : Malformed(entries[i])}
    IN  (/\ jsonResponse.status = 200
         /\ Cardinality(bad) = 1
         /\ Len(entries) >= 2) =>
            /\ \E i \in 1..Len(jsonResponse.reading.deviceStates) :
                  jsonResponse.reading.deviceStates[i].value # <<>>
            /\ jsonResponse.reading =
                  Reading(ParseDeviceStates(WithoutMalformed(rawData.deviceStates)))

(***************************************************************************)
(* Claims about the capability-state normalisers                           *)
(***************************************************************************)

\* The same state response with every pre-decoded entry delivered as the
\* string of its JSON text.
Encoded(deviceStates) ==
    [i \in 1..Len(deviceStates) |->
        DeviceState(deviceStates[i].entityId,
                    [j \in 1..Len(deviceStates[i].capabilityStates) |->
                        LET cap == deviceStates[i].capabilityStates[j]
                        IN  IF cap.wire = "object" THEN StringEntry(JsonStringify(cap.obj))
                            ELSE cap])]

\* The reading the normaliser named by makes of a state response.
NormalizedBy(by, deviceStates) ==
    CASE by = "bedroom" -> bedroomReading(deviceStates)
      [] by = "sensors" -> [sensors |-> sensorsAll(deviceStates)]
      [] by = "lightState" -> lightStateReading(deviceStates)
      [] by = "nightGate" -> [lightOn |-> lightCheck(deviceStates)]

\* C11 (as stated): at each of the four normalisers, the reading of a state
\* response is the reading of the same response with its pre-decoded
\* entries delivered as JSON-encoded strings.
C11_DecodedEqualsEncoded ==
    normalizer # "none" =>
        normalized = NormalizedBy(normalizer, Encoded(stateResponse))

\* The part of C11 that holds: the bedroom read and the sensor read.
C11_BedroomAndSensors ==
    normalizer \in {"bedroom", "sensors"} =>
        normalized = NormalizedBy(normalizer, Encoded(stateResponse))

\* Whether an entry decodes to a capability state, and the (namespace,
\* name) pair of one that does.
Decodes(entry) == ~Decode(entry).throw
PairOf(entry) == <<Decode(entry).value.namespace, Decode(entry).value.name>>

\* The last entry of a pair among the entries that decode, or NoCapability.
LastOfPair(entries, namespace, name) ==
    LET hits == {i \in 1..Len(entries) :
                    Decodes(entries[i]) /\ PairOf(entries[i]) = <<namespace, name>>}
    IN  IF hits = {} THEN NoCapability
        ELSE Decode(entries[CHOOSE i \in hits : \A j \in hits : j <= i]).value

\* An entry is superseded when an entry of the same pair follows it.
Superseded(entry, following) ==
    /\ Decodes(entry)
    /\ \E k \in 1..Len(following) :
          Decodes(following[k]) /\ PairOf(following[k]) = PairOf(entry)

\* The elements of a sequence at the positions kept, from position i on.
RECURSIVE KeepFrom(_, _, _)
KeepFrom(seq, keep, i) ==
    IF i > Len(seq) THEN <<>>
    ELSE (IF i \in keep THEN <<seq[i]>> ELSE <<>>) \o KeepFrom(seq, keep, i + 1)

\* A state response without its superseded entries: an entry is followed
\* by the later entries of its device and, when the reading is one for the
\* whole response, by the entries of the later devices.
KeepLast(deviceStates, across) ==
    [i \in 1..Len(deviceStates) |->
        LET entries == deviceStates[i].capabilityStates
            later == IF across
                     THEN Flatten(SubSeq(deviceStates, i + 1, Len(deviceStates)))
                     ELSE <<>>
        IN  DeviceState(deviceStates[i].entityId,
                        KeepFrom(entries,
                                 {j \in 1..Len(entries) :
                                     ~Superseded(entries[j],
                                                 SubSeq(entries, j + 1, Len(entries))
                                                     \o later)},
                                 1))]

\* The typed fields of a bedroom reading, without the echo of the input.
Fields(r) ==
    [temperature |-> r.temperature, illuminance |-> r.illuminance, motion |-> r.motion,
     light |-> r.light]

InResponse(v) == v # JsUndefined

\* The capabilities a sensor reading has fields for.
SensorKeys == {"temperature", "illuminance", "motion"}

\* C13 (as stated): every reading has every field of its structure,
\* whatever capability states the response carries: the bedroom reading its
\* temperatures, illuminance, brightness and colour, the sensor reading one
\* entry per device with the three sensor capabilities, the light state its
\* brightness, colour and colour temperature.
C13_AllFieldsPresent ==
    /\ normalizer = "bedroom" =>
          /\ InResponse(normalized.reading.temperature.celsius)
          /\ InResponse(normalized.reading.temperature.fahrenheit)
          /\ InResponse(normalized.reading.illuminance)
          /\ InResponse(normalized.reading.light.brightness)
          /\ InResponse(normalized.reading.light.color)
    /\ normalizer = "sensors" =>
          /\ Len(normalized.sensors) = Len(stateResponse)
          /\ \A s \in 1..Len(normalized.sensors) :
                DOMAIN normalized.sensors[s].capabilities = SensorKeys
    /\ (normalizer = "lightState" /\ normalized.status = 200) =>
          /\ InResponse(normalized.brightness)
          /\ InResponse(normalized.color.value)
          /\ InResponse(normalized.colorTempK)

\* The part of C13 that holds: the bedroom reading.
C13_BedroomFieldsPresent ==
    normalizer = "bedroom" =>
        /\ InResponse(normalized.reading.temperature.celsius)
        /\ InResponse(normalized.reading.temperature.fahrenheit)
        /\ InResponse(normalized.reading.illuminance)
        /\ InResponse(normalized.reading.light.brightness)
        /\ InResponse(normalized.reading.light.color)

\* The temperature entry the bedroom read takes its temperature from.
TemperatureRead == LastOfPair(Flatten(stateResponse), "Alexa.TemperatureSensor", "temperature")

\* C14 (as stated): a bedroom reading of a response with a temperature
\* entry in CELSIUS or FAHRENHEIT has both its Celsius and its Fahrenheit
\* value, neither null, whatever the number.
C14_BothScalesAvailable ==
    (/\ normalizer = "bedroom"
     /\ TemperatureRead # NoCapability
     /\ TemperatureRead.value.text \in {"CELSIUS", "FAHRENHEIT"}) =>
        /\ normalized.reading.temperature.celsius.type = "number"
        /\ normalized.reading.temperature.fahrenheit.type = "number"

VolumeWrites == {i \in 1..Len(vcalls) : vcalls[i].api = "speakerVolume.PUT"}

\* Whether the request names a device by both its fields.
NamesDevice == vreq.handler # "none" /\ Truthy(vreq.deviceType) /\ Truthy(vreq.dsn)

\* The positions in the upstream's list of the device the request is for:
\* the named device, or without one the first of the list.
Wanted ==
    IF NamesDevice
    THEN {k \in 1..Len(volumes) :
             volumes[k].deviceType = vreq.deviceType /\ volumes[k].dsn = vreq.dsn}
    ELSE {k \in 1..Len(volumes) : k = 1}

\* The volume-list read completed with a list that holds the device.
Selected == volumesData.ok /\ volumesData.hasVolumes /\ Wanted # {}

\* C16: a set request with target T in 0..100 whose read found the device
\* at speaker volume C issues exactly one write, to that device, with
\* amount T - C and volume C; the amount is within -100..100 (target 40 at
\* current 55 gives -15).
C16_SetSendsDelta ==
    (/\ vreq.handler = "set"
     /\ vreq.volume.type = "number" /\ vreq.volume.num \in 0..100
     /\ Selected) =>
        LET device == volumes[CHOOSE k \in Wanted : \A j \in Wanted : k <= j]
        IN  /\ Cardinality(VolumeWrites) = 1
            /\ \A i \in VolumeWrites :
                  /\ vcalls[i].deviceType = device.deviceType
                  /\ vcalls[i].dsn = device.dsn
                  /\ vcalls[i].volume = device.speakerVolume
                  /\ vcalls[i].amount = vreq.volume.num - device.speakerVolume
                  /\ vcalls[i].amount \in (0 - 100)..100
                  /\ (vreq.volume.num = 40 /\ device.speakerVolume = 55) =>
                        vcalls[i].amount = 0 - 15

\* C16 witness: target 40 at current 55 was written as amount -15.
C16_Witness ==
    /\ vreq.handler = "set"
    /\ vreq.volume = JsNumber(40)
    /\ vpc = "done"
    /\ vres.status = 200
    /\ \E i \in VolumeWrites : vcalls[i].amount = 0 - 15 /\ vcalls[i].volume = 55

\* C17: in a set or adjust request a write comes after the volume-list
\* read, which answered 2xx with a list holding the device; the write
\* carries the device type, the serial number and the speaker volume of
\* that device as read, and it is the named device when the request names
\* one. No write is issued before the read completes, when the read fails,
\* when the list is missing or empty, or when the named device is not in
\* the list.
C17_WriteAfterRead ==
    /\ \A i \in VolumeWrites :
          /\ i > 1
          /\ vcalls[1] = VolumesGet
          /\ Selected
          /\ \E k \in Wanted :
                /\ \A j \in Wanted : k <= j
                /\ volumesData.volumes[k] = volumes[k]
                /\ vcalls[i].deviceType = volumes[k].deviceType
                /\ vcalls[i].dsn = volumes[k].dsn
                /\ vcalls[i].volume = volumes[k].speakerVolume
    /\ vpc \in {"idle", "reading"} => VolumeWrites = {}
    /\ ~Selected => VolumeWrites = {}
    /\ Cardinality(VolumeWrites) <= 1

\* C17 witness: an adjust request naming the second device of the list was
\* written to that device with the volume read for it.
C17_Witness ==
    /\ vreq.handler = "adjust"
    /\ NamesDevice
    /\ vpc = "done"
    /\ Len(volumes) >= 2
    /\ volumes[2].dsn = vreq.dsn /\ volumes[2].deviceType = vreq.deviceType
    /\ \E i \in VolumeWrites :
          /\ vcalls[i].dsn = vreq.dsn
          /\ vcalls[i].volume = volumes[2].speakerVolume
          /\ vcalls[i].amount = vreq.amount.num

(***************************************************************************)
(* Claims about the night gate                                             *)
(***************************************************************************)

Night == ~IsDay(hourTz)

\* The lights of the account: the active endpoint favorites of category
\* LIGHT.
AccountLights ==
    {favorites[i].dev : i \in {k \in 1..Len(favorites) :
                                  IsSmartHomeDevice(favorites[k]) /\ IsLight(favorites[k])}}

\* The positions of the upstream requests to an endpoint.
CallsTo(api) == {i \in 1..Len(acalls) : acalls[i].api = api}

\* A request that passes the validation of the handler.
ValidAnnouncement ==
    /\ apc # "idle"
    /\ areq.env.creds
    /\ areq.body.json
    /\ areq.body.name \in 1..40
    /\ areq.body.message \in 1..145

\* C18 (as stated): at night the announcement is posted only after a light
\* state read that completed and showed a light on.
C18_NightPostNeedsLightOn ==
    \A i \in CallsTo("announcements.POST") :
        Night =>
            /\ \E j \in CallsTo("phoenix.POST") : j < i
            /\ lightOn = JsBoolean(TRUE)

C20_NightAnyLightOnProceeds ==
    (/\ ValidAnnouncement
     /\ Night
     /\ areq.env.disc /\ areq.env.stateOk /\ areq.env.encoded
     /\ \E d \in AccountLights : power[d] = "ON"
     /\ apc = "done") =>
        /\ ares.status # 403
        /\ CallsTo("accounts.GET") # {}


(***************************************************************************)
(* Claims about failures and their propagation                             *)
(***************************************************************************)

\* The REST operations that write upstream.
ControlHandlers == {"postPower", "postBrightness", "postColor", "postControl", "putDnd"}

\* Whether the upstream answered the k-th request sent for the light
\* request 2xx: the colour change of a combined control, sent second, has
\* its own answer.
Answered2xx(k) ==
    IF lreq.handler = "postControl" /\ k = 2 THEN lreq.colorOk ELSE lreq.env.upOk

\* C21: a control request one of whose upstream writes was answered non-2xx
\* does not report success.
C21_FailedWriteFailsRequest ==
    (/\ lreq.handler \in ControlHandlers
     /\ \E k \in 1..Len(calls) : ~Answered2xx(k))
        => lres.status # 200

\* C22: the announcement handler answers every failure of its steps with a
\* response of its own; no exception leaves it.
C22_NoErrorLeavesHandler ==
    apc = "done" => ares # Uncaught

\* The REST operations of the light and do-not-disturb APIs; all of them
\* need the upstream.
RestHandlers ==
    {"listLights", "getState", "postPower", "postBrightness", "postColor",
     "postControl", "putDnd"}

\* C23: a REST request served without credentials fails, and neither a
\* discovery query nor a state or control request was sent upstream for it.
C23_NoRequestWithoutCredentials ==
    (lreq.handler \in RestHandlers /\ ~lreq.env.creds)
        => /\ lres.status # 200
           /\ calls = <<>>
           /\ lookups = <<>>

\* The positions of the queries of one key that are sent upstream when the
\* request starts on an empty cache and the firstOk-th of them is the first
\* answered 2xx: that one stores its result, so the later ones are served
\* from the cache; the ones before it threw before setCache and stored
\* nothing, so each next one fetched again.
SentUpstream(queries, firstOk) == {i \in 1..Len(queries) : i <= firstOk}

\* C24: of the discovery queries of one bedroom read, no two that were sent
\* upstream are the same request.
C24_NoRequestSentTwice ==
    breq.handler = "bedroom" =>
        \A i \in SentUpstream(lookups, breq.firstOk),
           j \in SentUpstream(lookups, breq.firstOk) :
            i # j => lookups[i] # lookups[j]

(***************************************************************************)
(* Claims about the discovery sweep of the bedroom read                    *)
(***************************************************************************)

\* The first endpoint of the graph in a category, as a set: empty when
\* there is none.
FirstOf(category) ==
    {endpoints[i] : i \in {i \in 1..Len(endpoints) :
                              /\ endpoints[i].category = category
                              /\ \A j \in 1..(i - 1) : endpoints[j].category # category}}

\* What each strategy of the sweep contributes when it does not fail. The
\* three that read the endpoint graph fail when their own query of it does;
\* each of the two lookups also fails when the graph has no device of its
\* category; the device-list sweep fails with the device-list request.
EchoLookupIds ==
    IF breq.firstOk <= 1
    THEN {e.chrs : e \in {e \in FirstOf("ALEXA_VOICE_ENABLED") : Present(e.chrs)}}
    ELSE {}

LightLookupIds ==
    IF breq.firstOk <= 2
    THEN {e.applianceId : e \in {e \in FirstOf("LIGHT") : Present(e.applianceId)}}
    ELSE {}

GraphSweepIds ==
    IF breq.firstOk <= 3
    THEN {endpoints[i].chrs : i \in {i \in 1..Len(endpoints) : Present(endpoints[i].chrs)}}
            \cup {endpoints[i].applianceId :
                    i \in {i \in 1..Len(endpoints) : Present(endpoints[i].applianceId)}}
    ELSE {}

DeviceSweepIds ==
    LET devices == breq.devicesResponse.devices
    IN  IF breq.devicesResponse.ok
        THEN {<<"AlexaBridge_">> \o devices[i].serialNumber \o <<"@">> \o devices[i].deviceType
                  \o <<"_">> \o devices[i].serialNumber :
                i \in {i \in 1..Len(devices) :
                          Present(devices[i].serialNumber) /\ Present(devices[i].deviceType)}}
        ELSE {}

\* The bedroom read got as far as the sweep.
Swept == breq.handler = "bedroom" /\ breq.env.creds /\ ~breq.cached

\* C25: whichever strategies of the sweep fail, the state request asks for
\* exactly the identifiers the four strategies contribute together, and the
\* read answers "no devices found" exactly when they contribute none.
C25_SweepSurvivesFailures ==
    Swept =>
        LET ids == EchoLookupIds \cup LightLookupIds \cup GraphSweepIds \cup DeviceSweepIds
            sent == jsonResponse.sent
        IN  IF ids = {}
            THEN /\ jsonResponse.status = 404
                 /\ jsonResponse.error = "No devices found with any strategy"
                 /\ sent = <<>>
            ELSE /\ jsonResponse.status \in {200, 503}
                 /\ {sent[i].entityId : i \in 1..Len(sent)} = ids
                 /\ \A i \in 1..Len(sent), j \in 1..Len(sent) :
                       i # j => sent[i].entityId # sent[j].entityId

\* C25 witness: the upstream failed both lookups of strategy 1 and the
\* device-list request, and the read went on with the identifiers of the
\* endpoint-graph sweep alone.
C25_Witness ==
    /\ Swept
    /\ breq.firstOk = 3
    /\ ~breq.devicesResponse.ok
    /\ jsonResponse.status = 200
    /\ Len(jsonResponse.sent) > 0

(***************************************************************************)
(* Claims about the age and the validity of cached discovery results       *)
(***************************************************************************)

\* C26: a value a cached discovery query returns, from the cache or from
\* its own fetch, was produced by the upstream no more than 300 s before the
\* query returns it.
C26_StalenessWithinTtl ==
    last.op \in {"hit", "store"} => now - last.value.asOf <= 300 * 1000

\* A caller is about to resume with a reply that is not a valid result: a
\* non-2xx answer, or a 2xx answer without the expected payload.
InvalidReply(c) ==
    pc[c] = "responded" /\ ~(resp[c].ok /\ resp[c].payload = "valid")

\* C27: a query that resumes with a reply that is not a valid result leaves
\* the cache as it was.
C27_InvalidResultNotStored ==
    [][\A c \in Callers : (InvalidReply(c) /\ pc'[c] = "idle") => cache' = cache]_vars

(***************************************************************************)
(* Claims about concurrent volume requests and the devices addressed      *)
(***************************************************************************)

\* The level the upstream holds for the device d.
LevelOf(d) ==
    LET i == CHOOSE i \in 1..Len(volumes) : volumes[i].dev = d
    IN  volumes[i].speakerVolume

\* Both racing requests set the volume of one device and were answered 200.
BothSet ==
    /\ \A s \in Setters : spc[s] = "done" /\ sres[s].status = 200
    /\ starget["s1"].dev = starget["s2"].dev

\* C28: when two set-volume requests for one device have both succeeded,
\* however their reads and writes were interleaved, the device is at the
\* target of one of them.
C28_FinalVolumeIsATarget ==
    BothSet => LevelOf(starget["s1"].dev) \in {sreq[s].volume.num : s \in Setters}

\* The state reads among the upstream requests sent.
StateReads == {k \in 1..Len(calls) : calls[k].api = "phoenix.POST"}

\* The identifiers of the device d, of every kind.
IdentifiersOf(d) == {EntityIdOf(d), ApplianceIdOf(d), EndpointIdOf(d)}

\* C29: the state read of GET /api/lights/X/state, for a listed light X, is
\* keyed by an identifier of the device X names.
C29_StateReadOfNamedLight ==
    (lreq.handler = "getState" /\ lreq.id \in ListedIds) =>
        \A k \in StateReads :
            \E d \in DeviceNames :
                lreq.id = EntityIdOf(d) /\ calls[k].id \in IdentifiersOf(d)

\* C30: a volume write is addressed to a device that has every selector
\* field the request supplied.
C30_WriteMatchesSelector ==
    \A k \in VolumeWrites :
        /\ Present(vreq.deviceType) => vcalls[k].deviceType = vreq.deviceType
        /\ Present(vreq.dsn) => vcalls[k].dsn = vreq.dsn

====
